---- MODULE Spec2Model ----
(***************************************************************************)
(* Metadata extraction engine of exif-viewer-extension (Go, built to wasm  *)
(* with TinyGo): format detection, the dispatcher, the JPEG / PNG / WebP   *)
(* container walks and the shared TIFF/IFD walker; and, of the extension's *)
(* scripts, the modal overlay and the loader of the wasm module.           *)
(*                                                                         *)
(* Byte buffers are sequences of numbers 0..255, indexed from 0 through    *)
(* the helpers below.  Strings (map keys and values) are byte sequences    *)
(* too.  A uint32 is a pair <<hi16, lo16>>; Go's int is 32 bits wide in    *)
(* the wasm build, and int arithmetic wraps as it does there.              *)
(***************************************************************************)
EXTENDS Integers, Sequences, FiniteSets, TLC

VARIABLES
    data,       \* the input buffer handed to ParseImage
    pc,         \* position of the parse: "start", a decoder loop, "tiff", "done", "panic"
    format,     \* result of DetectFormat
    exifData,   \* the metadata map being filled (key bytes -> value bytes)
    result,     \* what ParseImage returned: [err |-> kind, map |-> map or <<>>]
    pos,        \* reader cursor (JPEG) / offset (PNG, WebP) into data
    region,     \* the byte region ParseTIFF is walking
    order,      \* byte order of the region: "LE" or "BE"
    stack,      \* parseIFD activations: <<[base, i, n], ...>>, innermost last
    ret,        \* decoder loop that called ParseTIFF
    fault,      \* site of a run-time panic, "none" otherwise
    hist,       \* observations of the run (not program state), see HistInit
    modals,     \* the Modal objects of one page (ui/modal.js), in creation order
    loader      \* one WasmExifParser instance and its callers (wasm/loader-sw.js)

vars == <<data, pc, format, exifData, result, pos, region, order, stack, ret, fault, hist,
          modals, loader>>

\* The variables of the Go engine, and those of the extension's scripts.
GoVars == <<data, pc, format, exifData, result, pos, region, order, stack, ret, fault, hist>>
JsVars == <<modals, loader>>

----------------------------------------------------------------------------
(* Bounds of the explored inputs *)

MaxSegs == 2        \* JPEG segments / PNG chunks / WebP chunks per generated buffer
MaxCut == 2         \* bytes cut from the end of a generated buffer
MaxDepth == 26      \* parseIFD activations before the call stack is exhausted
MaxCalls == 3       \* ParseImage calls made one after the other
MaxModals == 4      \* showModal calls on one page
MaxLoadCalls == 4   \* calls made on one WasmExifParser instance

----------------------------------------------------------------------------
(* Go int on wasm32 *)

MaxInt == 2147483647
MinInt == (-MaxInt) - 1

\* a + b on 32-bit int, wrapping on overflow.
AddInt(a, b) ==
    IF a >= 0 /\ b >= 0 /\ a > MaxInt - b THEN (a + MinInt) + (b + MinInt)
    ELSE IF a < 0 /\ b < 0 /\ a < MinInt - b THEN (a - MinInt) + (b - MinInt)
    ELSE a + b

\* int(u) for a uint32 u = <<hi16, lo16>>.
ToInt(u) == IF u[1] >= 32768 THEN (u[1] - 65536) * 65536 + u[2] ELSE u[1] * 65536 + u[2]

\* uint32(n) for a small non-negative n.
U32(n) == <<n \div 65536, n % 65536>>

----------------------------------------------------------------------------
(* Byte sequences, indexed from 0 as Go slices are *)

Min(a, b) == IF a < b THEN a ELSE b

Slice(d, lo, hi) == SubSeq(d, lo + 1, hi)

Zeros(n) == [k \in 1..n |-> 0]

HasPrefix(d, p) == Len(d) >= Len(p) /\ SubSeq(d, 1, Len(p)) = p

BE16(d, off) == d[off + 1] * 256 + d[off + 2]
LE16(d, off) == d[off + 2] * 256 + d[off + 1]
BE32(d, off) == <<BE16(d, off), BE16(d, off + 2)>>
LE32(d, off) == <<LE16(d, off + 2), LE16(d, off)>>

\* A TrimRight that trims nothing.
TrimRight0_Keep(b) == b

\* bytes.TrimRight(b, "\x00")
TrimRight0(b) ==
    LET keep == {k \in 1..Len(b) : b[k] # 0}
    IN IF keep = {} THEN <<>>
       ELSE SubSeq(b, 1, CHOOSE k \in keep : \A j \in keep : j <= k)

\* bytes.IndexByte(b, 0): index of the first NUL, -1 if none.
IndexNul(b) ==
    LET hits == {k \in 1..Len(b) : b[k] = 0}
    IN IF hits = {} THEN -1 ELSE (CHOOSE k \in hits : \A j \in hits : k <= j) - 1

\* fmt.Sprintf("%d", n) for n >= 0.
RECURSIVE Dec(_)
Dec(n) == IF n < 10 THEN <<48 + n>> ELSE Dec(n \div 10) \o <<48 + (n % 10)>>

\* fmt.Sprintf("%02d", n)
Dec2(n) == IF n < 10 THEN <<48>> \o Dec(n) ELSE Dec(n)

\* A map write that keeps the value a key already has.
Put_KeepFirst(m, k, v) == [x \in (DOMAIN m) \cup {k} |-> IF x \in DOMAIN m THEN m[x] ELSE v]

\* The metadata map: exifData[k] = v.
Put(m, k, v) == [x \in (DOMAIN m) \cup {k} |-> IF x = k THEN v ELSE m[x]]

EmptyMap == <<>>

\* A declaration that keeps what the variable held.
MakeExifData_Reuse(old) == old

\* exifData := make(ExifData): a new empty map, whatever the variable held
MakeExifData(old) == EmptyMap

\* String literals of the JPEG decoder, as byte sequences.
JpegText ==
  [ JPEG_Comment |-> <<74, 80, 69, 71, 95, 67, 111, 109, 109, 101, 110, 116>>,
    JFIF_Version |-> <<74, 70, 73, 70, 95, 86, 101, 114, 115, 105, 111, 110>>,
    JFXX_Extension |-> <<74, 70, 88, 88, 95, 69, 120, 116, 101, 110, 115, 105, 111, 110>>,
    APP0_Data |-> <<65, 80, 80, 48, 95, 68, 97, 116, 97>>,
    APP1_Data |-> <<65, 80, 80, 49, 95, 68, 97, 116, 97>>,
    APP2_Data |-> <<65, 80, 80, 50, 95, 68, 97, 116, 97>>,
    APP13_Data |-> <<65, 80, 80, 49, 51, 95, 68, 97, 116, 97>>,
    APP14_Data |-> <<65, 80, 80, 49, 52, 95, 68, 97, 116, 97>>,
    APP15_Data |-> <<65, 80, 80, 49, 53, 95, 68, 97, 116, 97>>,
    EXIF_ParseError |-> <<69, 88, 73, 70, 95, 80, 97, 114, 115, 101, 69, 114, 114, 111, 114>>,
    XMP_Metadata |-> <<88, 77, 80, 95, 77, 101, 116, 97, 100, 97, 116, 97>>,
    ICC_Profile |-> <<73, 67, 67, 95, 80, 114, 111, 102, 105, 108, 101>>,
    FlashPix |-> <<70, 108, 97, 115, 104, 80, 105, 120>>,
    Photoshop_IRB |-> <<80, 104, 111, 116, 111, 115, 104, 111, 112, 95, 73, 82, 66>>,
    Adobe_APP14 |-> <<65, 100, 111, 98, 101, 95, 65, 80, 80, 49, 52>>,
    present |-> <<112, 114, 101, 115, 101, 110, 116>>,
    presentOpen |-> <<112, 114, 101, 115, 101, 110, 116, 32, 40>>,
    bytesClose |-> <<32, 98, 121, 116, 101, 115, 41>>,
    bytesBinaryClose |-> <<32, 98, 121, 116, 101, 115, 32, 98, 105, 110, 97, 114, 121, 41>>,
    APP |-> <<65, 80, 80>>,
    _Data |-> <<95, 68, 97, 116, 97>>,
    JFIF0 |-> <<74, 70, 73, 70, 0>>,
    JFXX0 |-> <<74, 70, 88, 88, 0>>,
    Exif |-> <<69, 120, 105, 102>>,
    XmpNs |-> <<104, 116, 116, 112, 58, 47, 47, 110, 115, 46, 97, 100, 111, 98, 101, 46, 99, 111, 109, 47, 120, 97, 112, 47, 49, 46, 48, 47, 0>>,
    IccPrefix |-> <<73, 67, 67, 95, 80, 82, 79, 70, 73, 76, 69, 0>>,
    Fpxr |-> <<70, 80, 88, 82, 0, 0>>,
    Photoshop |-> <<80, 104, 111, 116, 111, 115, 104, 111, 112, 32, 51, 46, 48, 0>>,
    Adobe |-> <<65, 100, 111, 98, 101>> ]

\* String literals of the TIFF/IFD decoder (error texts, charset, tag names).
TiffText ==
  [ TiffTooShort |-> <<84, 73, 70, 70, 32, 104, 101, 97, 100, 101, 114, 32, 116, 111, 111, 32, 115, 104, 111, 114, 116>>,
    TiffBadOrder |-> <<105, 110, 118, 97, 108, 105, 100, 32, 84, 73, 70, 70, 32, 98, 121, 116, 101, 32, 111, 114, 100, 101, 114>>,
    ASCII |-> <<65, 83, 67, 73, 73>>,
    charsetOpen |-> <<32, 40, 99, 104, 97, 114, 115, 101, 116, 58, 32>>,
    ImageDescription |-> <<73, 109, 97, 103, 101, 68, 101, 115, 99, 114, 105, 112, 116, 105, 111, 110>>,
    Make |-> <<77, 97, 107, 101>>,
    Model |-> <<77, 111, 100, 101, 108>>,
    Orientation |-> <<79, 114, 105, 101, 110, 116, 97, 116, 105, 111, 110>>,
    Software |-> <<83, 111, 102, 116, 119, 97, 114, 101>>,
    DateTime |-> <<68, 97, 116, 101, 84, 105, 109, 101>>,
    Artist |-> <<65, 114, 116, 105, 115, 116>>,
    Copyright |-> <<67, 111, 112, 121, 114, 105, 103, 104, 116>>,
    ExposureTime |-> <<69, 120, 112, 111, 115, 117, 114, 101, 84, 105, 109, 101>>,
    FNumber |-> <<70, 78, 117, 109, 98, 101, 114>>,
    ISO |-> <<73, 83, 79>>,
    DateTimeOriginal |-> <<68, 97, 116, 101, 84, 105, 109, 101, 79, 114, 105, 103, 105, 110, 97, 108>>,
    DateTimeDigitized |-> <<68, 97, 116, 101, 84, 105, 109, 101, 68, 105, 103, 105, 116, 105, 122, 101, 100>>,
    FocalLength |-> <<70, 111, 99, 97, 108, 76, 101, 110, 103, 116, 104>>,
    Flash |-> <<70, 108, 97, 115, 104>>,
    UserComment |-> <<85, 115, 101, 114, 67, 111, 109, 109, 101, 110, 116>>,
    ImageUniqueID |-> <<73, 109, 97, 103, 101, 85, 110, 105, 113, 117, 101, 73, 68>>,
    WhiteBalance |-> <<87, 104, 105, 116, 101, 66, 97, 108, 97, 110, 99, 101>>,
    CameraOwnerName |-> <<67, 97, 109, 101, 114, 97, 79, 119, 110, 101, 114, 78, 97, 109, 101>>,
    BodySerialNumber |-> <<66, 111, 100, 121, 83, 101, 114, 105, 97, 108, 78, 117, 109, 98, 101, 114>>,
    LensMake |-> <<76, 101, 110, 115, 77, 97, 107, 101>>,
    LensModel |-> <<76, 101, 110, 115, 77, 111, 100, 101, 108>>,
    LensSerialNumber |-> <<76, 101, 110, 115, 83, 101, 114, 105, 97, 108, 78, 117, 109, 98, 101, 114>> ]

\* String literals of the PNG decoder.
PngText ==
  [ PNG_ |-> <<80, 78, 71, 95>>,
    PNG_Warning |-> <<80, 78, 71, 95, 87, 97, 114, 110, 105, 110, 103>>,
    CrcMismatch |-> <<67, 82, 67, 32, 109, 105, 115, 109, 97, 116, 99, 104, 32, 102, 111, 114, 32, 99, 104, 117, 110, 107, 32>>,
    EXIF_ParseError |-> <<69, 88, 73, 70, 95, 80, 97, 114, 115, 101, 69, 114, 114, 111, 114>>,
    IHDR |-> <<73, 72, 68, 82>>,
    tEXt |-> <<116, 69, 88, 116>>,
    zTXt |-> <<122, 84, 88, 116>>,
    iTXt |-> <<105, 84, 88, 116>>,
    eXIf |-> <<101, 88, 73, 102>>,
    pHYs |-> <<112, 72, 89, 115>>,
    tIME |-> <<116, 73, 77, 69>>,
    iCCP |-> <<105, 67, 67, 80>>,
    sPLT |-> <<115, 80, 76, 84>>,
    IEND |-> <<73, 69, 78, 68>>,
    PNG_ImageWidth |-> <<80, 78, 71, 95, 73, 109, 97, 103, 101, 87, 105, 100, 116, 104>>,
    PNG_ImageHeight |-> <<80, 78, 71, 95, 73, 109, 97, 103, 101, 72, 101, 105, 103, 104, 116>>,
    PNG_BitDepth |-> <<80, 78, 71, 95, 66, 105, 116, 68, 101, 112, 116, 104>>,
    PNG_ColorType |-> <<80, 78, 71, 95, 67, 111, 108, 111, 114, 84, 121, 112, 101>>,
    PNG_Compression |-> <<80, 78, 71, 95, 67, 111, 109, 112, 114, 101, 115, 115, 105, 111, 110>>,
    PNG_Filter |-> <<80, 78, 71, 95, 70, 105, 108, 116, 101, 114>>,
    PNG_Interlace |-> <<80, 78, 71, 95, 73, 110, 116, 101, 114, 108, 97, 99, 101>>,
    Grayscale |-> <<71, 114, 97, 121, 115, 99, 97, 108, 101>>,
    RGB |-> <<82, 71, 66>>,
    Indexed |-> <<73, 110, 100, 101, 120, 101, 100, 32, 40, 80, 97, 108, 101, 116, 116, 101, 41>>,
    GrayAlpha |-> <<71, 114, 97, 121, 115, 99, 97, 108, 101, 32, 119, 105, 116, 104, 32, 65, 108, 112, 104, 97>>,
    RGBAlpha |-> <<82, 71, 66, 32, 119, 105, 116, 104, 32, 65, 108, 112, 104, 97>>,
    None |-> <<78, 111, 110, 101>>,
    Adam7 |-> <<65, 100, 97, 109, 55>>,
    PNG_PixelsPerUnitX |-> <<80, 78, 71, 95, 80, 105, 120, 101, 108, 115, 80, 101, 114, 85, 110, 105, 116, 88>>,
    PNG_PixelsPerUnitY |-> <<80, 78, 71, 95, 80, 105, 120, 101, 108, 115, 80, 101, 114, 85, 110, 105, 116, 89>>,
    PNG_PixelUnit |-> <<80, 78, 71, 95, 80, 105, 120, 101, 108, 85, 110, 105, 116>>,
    unknown |-> <<117, 110, 107, 110, 111, 119, 110>>,
    aspectRatio |-> <<97, 115, 112, 101, 99, 116, 32, 114, 97, 116, 105, 111>>,
    meter |-> <<109, 101, 116, 101, 114>>,
    PNG_ModifyDate |-> <<80, 78, 71, 95, 77, 111, 100, 105, 102, 121, 68, 97, 116, 101>>,
    PNG_ICCProfile |-> <<80, 78, 71, 95, 73, 67, 67, 80, 114, 111, 102, 105, 108, 101>>,
    PNG_ICCCompression |-> <<80, 78, 71, 95, 73, 67, 67, 67, 111, 109, 112, 114, 101, 115, 115, 105, 111, 110>>,
    deflate |-> <<100, 101, 102, 108, 97, 116, 101>>,
    PNG_Palette |-> <<80, 78, 71, 95, 80, 97, 108, 101, 116, 116, 101>>,
    lang |-> <<108, 97, 110, 103, 58>>,
    translated |-> <<116, 114, 97, 110, 115, 108, 97, 116, 101, 100, 58>> ]

\* String literals of the WebP decoder.
WebpText ==
  [ RIFF |-> <<82, 73, 70, 70>>,
    WEBP |-> <<87, 69, 66, 80>>,
    EXIF |-> <<69, 88, 73, 70>>,
    XMP_ |-> <<88, 77, 80, 32>>,
    VP8X |-> <<86, 80, 56, 88>>,
    ICCP |-> <<73, 67, 67, 80>>,
    ANIM |-> <<65, 78, 73, 77>>,
    VP8_ |-> <<86, 80, 56, 32>>,
    VP8L |-> <<86, 80, 56, 76>>,
    EXIF_ParseError |-> <<69, 88, 73, 70, 95, 80, 97, 114, 115, 101, 69, 114, 114, 111, 114>>,
    XMP_Metadata |-> <<88, 77, 80, 95, 77, 101, 116, 97, 100, 97, 116, 97>>,
    ICC_Profile |-> <<73, 67, 67, 95, 80, 114, 111, 102, 105, 108, 101>>,
    presentOpen |-> <<112, 114, 101, 115, 101, 110, 116, 32, 40>>,
    bytesClose |-> <<32, 98, 121, 116, 101, 115, 41>>,
    WebP_Features |-> <<87, 101, 98, 80, 95, 70, 101, 97, 116, 117, 114, 101, 115>>,
    WebP_Canvas_Width |-> <<87, 101, 98, 80, 95, 67, 97, 110, 118, 97, 115, 95, 87, 105, 100, 116, 104>>,
    WebP_Canvas_Height |-> <<87, 101, 98, 80, 95, 67, 97, 110, 118, 97, 115, 95, 72, 101, 105, 103, 104, 116>>,
    WebP_Animation_BgColor |-> <<87, 101, 98, 80, 95, 65, 110, 105, 109, 97, 116, 105, 111, 110, 95, 66, 103, 67, 111, 108, 111, 114>>,
    WebP_Animation_LoopCount |-> <<87, 101, 98, 80, 95, 65, 110, 105, 109, 97, 116, 105, 111, 110, 95, 76, 111, 111, 112, 67, 111, 117, 110, 116>>,
    WebP_Format |-> <<87, 101, 98, 80, 95, 70, 111, 114, 109, 97, 116>>,
    Lossy |-> <<76, 111, 115, 115, 121, 32, 40, 86, 80, 56, 41>>,
    Lossless |-> <<76, 111, 115, 115, 108, 101, 115, 115, 32, 40, 86, 80, 56, 76, 41>>,
    fICC |-> <<73, 67, 67, 32>>,
    fAlpha |-> <<65, 108, 112, 104, 97, 32>>,
    fEXIF |-> <<69, 88, 73, 70, 32>>,
    fXMP |-> <<88, 77, 80, 32>>,
    fAnimation |-> <<65, 110, 105, 109, 97, 116, 105, 111, 110, 32>>,
    hex0x |-> <<48, 120>> ]

\* fmt.Sprintf("%d", u) for a uint32 u = <<hi16, lo16>>.
RECURSIVE DecU32(_)
DecU32(u) ==
    IF u[1] = 0 THEN Dec(u[2])
    ELSE LET low == (u[1] % 10) * 65536 + u[2]
         IN DecU32(<<u[1] \div 10, low \div 10>>) \o <<48 + (low % 10)>>

----------------------------------------------------------------------------
(* Format detection and dispatch *)

FormatUnknown == 0
FormatJPEG == 1
FormatTIFF == 2
FormatPNG == 3
FormatWebP == 4
FormatHEIF == 5

\* Shortest buffer DetectFormat looks into.
MinDetectLen == 12

\* pngSignature
pngSignature == <<137, 80, 78, 71, 13, 10, 26, 10>>

\* Left-to-right comparison data[off+k] == sig[k], stopping at the first
\* mismatch as && does: "yes", "no", or "oob" when an index is outside data.
RECURSIVE Match(_, _, _)
Match(d, off, sig) ==
    IF sig = <<>> THEN "yes"
    ELSE IF off >= Len(d) THEN "oob"
    ELSE IF d[off + 1] # Head(sig) THEN "no"
    ELSE Match(d, off + 1, Tail(sig))

\* a || b over Match results.
OrElse(a, b) == IF a = "no" THEN b ELSE a

\* a && b over Match results.
AndThen(a, b) == IF a = "yes" THEN b ELSE a

\* The five signature tests of DetectFormat, in the order it makes them.
SigJPEG(d) == Match(d, 0, <<255, 216, 255>>)
SigTIFF(d) == OrElse(Match(d, 0, <<73, 73, 42, 0>>), Match(d, 0, <<77, 77, 0, 42>>))
SigPNG(d) == Match(d, 0, <<137, 80, 78, 71>>)
SigWebP(d) == AndThen(Match(d, 0, <<82, 73, 70, 70>>), Match(d, 8, <<87, 69, 66, 80>>))
SigHEIF(d) ==
    IF Len(d) >= 12 THEN Match(d, 4, <<102, 116, 121, 112>>) ELSE "no"

\* The signature tests after the length guard: first match wins; an index
\* outside the buffer is a run-time panic.
SigScan(d) ==
    LET tests == <<SigJPEG(d), SigTIFF(d), SigPNG(d), SigWebP(d), SigHEIF(d)>>
        fmts == <<FormatJPEG, FormatTIFF, FormatPNG, FormatWebP, FormatHEIF>>
        hit == {k \in 1..5 : tests[k] # "no"}
        first == CHOOSE k \in hit : \A j \in hit : k <= j
    IN IF hit = {} THEN [format |-> FormatUnknown, oob |-> FALSE]
       ELSE IF tests[first] = "oob" THEN [format |-> FormatUnknown, oob |-> TRUE]
       ELSE [format |-> fmts[first], oob |-> FALSE]

\* A DetectFormat that tests for "ftyp" before the other signatures.
DetectFormat_HeifFirst(d) ==
    IF Len(d) < MinDetectLen THEN [format |-> FormatUnknown, oob |-> FALSE]
    ELSE IF SigHEIF(d) = "yes" THEN [format |-> FormatHEIF, oob |-> FALSE]
    ELSE SigScan(d)

DetectFormat(d) ==
    IF Len(d) < MinDetectLen THEN [format |-> FormatUnknown, oob |-> FALSE]
    ELSE SigScan(d)

\* GetParser: the decoder registered for a format, "nil" when there is none.
GetParser(f) ==
    CASE f = FormatJPEG \/ f = FormatTIFF -> "ExifParser"
      [] f = FormatPNG -> "PNGParser"
      [] f = FormatWebP -> "WebPParser"
      [] f = FormatHEIF -> "HEIFParser"
      [] OTHER -> "nil"

\* A returned (ExifData, error) pair.
Ok(m) == [err |-> "none", map |-> m]
Fail(kind) == [err |-> kind, map |-> EmptyMap]
NoResult == [err |-> "pending", map |-> EmptyMap]

\* A decoder tail that returns the map whatever it holds.
Finish_Always(m, kind) == Ok(m)

\* The common tail of every decoder: an empty map is an error.
Finish(m, kind) == IF DOMAIN m = {} THEN Fail(kind) ELSE Ok(m)

----------------------------------------------------------------------------
(* TIFF / IFD walker (SimpleExifParser.ParseTIFF, parseIFD, parseTag) *)

tagImageDescription == 270
tagMake == 271
tagModel == 272
tagOrientation == 274
tagSoftware == 305
tagDateTime == 306
tagArtist == 315
tagCopyright == 33432
tagExifIFDPointer == 34665
tagExposureTime == 33434
tagFNumber == 33437
tagISOSpeedRatings == 34855
tagDateTimeOriginal == 36867
tagDateTimeDigitized == 36868
tagFocalLength == 37386
tagFlash == 37385
tagUserComment == 37510
tagImageUniqueID == 42016
tagWhiteBalance == 41987
tagCameraOwnerName == 42032
tagBodySerialNumber == 42033
tagLensMake == 42035
tagLensModel == 42036
tagLensSerialNumber == 42037

\* The name a tag is stored under; <<>> for a tag the table does not map.
TagName(tag) ==
    CASE tag = tagImageDescription -> TiffText.ImageDescription
      [] tag = tagMake -> TiffText.Make
      [] tag = tagModel -> TiffText.Model
      [] tag = tagOrientation -> TiffText.Orientation
      [] tag = tagSoftware -> TiffText.Software
      [] tag = tagDateTime -> TiffText.DateTime
      [] tag = tagArtist -> TiffText.Artist
      [] tag = tagCopyright -> TiffText.Copyright
      [] tag = tagExposureTime -> TiffText.ExposureTime
      [] tag = tagFNumber -> TiffText.FNumber
      [] tag = tagISOSpeedRatings -> TiffText.ISO
      [] tag = tagDateTimeOriginal -> TiffText.DateTimeOriginal
      [] tag = tagDateTimeDigitized -> TiffText.DateTimeDigitized
      [] tag = tagFocalLength -> TiffText.FocalLength
      [] tag = tagFlash -> TiffText.Flash
      [] tag = tagUserComment -> TiffText.UserComment
      [] tag = tagImageUniqueID -> TiffText.ImageUniqueID
      [] tag = tagWhiteBalance -> TiffText.WhiteBalance
      [] tag = tagCameraOwnerName -> TiffText.CameraOwnerName
      [] tag = tagBodySerialNumber -> TiffText.BodySerialNumber
      [] tag = tagLensMake -> TiffText.LensMake
      [] tag = tagLensModel -> TiffText.LensModel
      [] tag = tagLensSerialNumber -> TiffText.LensSerialNumber
      [] OTHER -> <<>>

\* byteOrder.Uint16 / Uint32 at an offset of the region.
Rd16(d, off, bo) == IF bo = "LE" THEN LE16(d, off) ELSE BE16(d, off)
Rd32(d, off, bo) == IF bo = "LE" THEN LE32(d, off) ELSE BE32(d, off)

\* d[lo:hi] is a legal slice expression (it panics otherwise).
SliceOk(d, lo, hi) == 0 <= lo /\ lo <= hi /\ hi <= Len(d)

\* fmt.Sprintf("%.2f", float64(num)/float64(den)), den # 0.  The quotient is
\* rounded to the nearest hundredth; an exact tie is representable in binary
\* only at odd eighths, where the digit rounds to even.  Other exact ties
\* depend on the float64 error and are not defined here.
Rational(num, den) ==
    LET n == num[1] * 65536 + num[2]
        m == den[1] * 65536 + den[2]
        q == (n * 100) \div m
        r == (n * 100) % m
        up == IF 2 * r > m THEN 1
              ELSE IF 2 * r < m THEN 0
              ELSE IF (8 * n) % m = 0 THEN q % 2
              ELSE CHOOSE x \in {} : TRUE
        h == q + up
    IN Dec(h \div 100) \o <<46>> \o Dec2(h % 100)

\* A count test that every count passes.
CountIsOne_Any(count) == TRUE

\* count == 1, for SHORT, LONG and RATIONAL
CountIsOne(count) == count = <<0, 1>>

\* The value decoding of parseTag: [value, panic].
TagValue(tag, dataType, count, offset, d, bo) ==
    LET cnt == ToInt(count)
        vo == ToInt(Rd32(d, offset, bo))
        ok(v) == [value |-> v, panic |-> FALSE]
        bad == [value |-> <<>>, panic |-> TRUE]
    IN CASE dataType = 2 ->
              IF count[1] = 0 /\ count[2] <= 4
              THEN ok(TrimRight0(Slice(d, offset, offset + cnt)))
              ELSE IF AddInt(vo, cnt) <= Len(d)
                   THEN IF SliceOk(d, vo, AddInt(vo, cnt))
                        THEN ok(TrimRight0(Slice(d, vo, vo + cnt)))
                        ELSE bad
                   ELSE ok(<<>>)
         [] dataType = 3 ->
              IF CountIsOne(count) THEN ok(Dec(Rd16(d, offset, bo))) ELSE ok(<<>>)
         [] dataType = 4 ->
              IF CountIsOne(count) THEN ok(DecU32(Rd32(d, offset, bo))) ELSE ok(<<>>)
         [] dataType = 5 ->
              IF CountIsOne(count) /\ AddInt(vo, 8) <= Len(d)
              THEN IF SliceOk(d, vo, AddInt(vo, 4)) /\ SliceOk(d, AddInt(vo, 4), AddInt(vo, 8))
                   THEN IF Rd32(d, vo + 4, bo) # <<0, 0>>
                        THEN ok(Rational(Rd32(d, vo, bo), Rd32(d, vo + 4, bo)))
                        ELSE ok(<<>>)
                   ELSE bad
              ELSE ok(<<>>)
         [] dataType = 7 ->
              IF tag = tagUserComment /\ (count[1] > 0 \/ count[2] > 8)
                 /\ AddInt(vo, cnt) <= Len(d)
              THEN IF SliceOk(d, vo, AddInt(vo, cnt))
                   THEN LET commentData == Slice(d, vo, vo + cnt)
                            charset == TrimRight0(SubSeq(commentData, 1, 8))
                            text == TrimRight0(SubSeq(commentData, 9, Len(commentData)))
                        IN IF charset # <<>> /\ charset # TiffText.ASCII
                           THEN ok(text \o TiffText.charsetOpen \o charset \o <<41>>)
                           ELSE ok(text)
                   ELSE bad
              ELSE ok(<<>>)
         [] OTHER -> ok(<<>>)

\* parseTag: what one IFD entry does.
\*   "skip"  nothing is stored          "put"  exifData[key] = value
\*   "sub"   parseIFD(data, off, ...)   "panic"  a slice expression panicked
parseTag(tag, dataType, count, offset, d, bo) ==
    LET tv == TagValue(tag, dataType, count, offset, d, bo)
        act(k) == [kind |-> k, key |-> <<>>, value |-> <<>>, off |-> 0]
    IN IF tv.panic THEN act("panic")
       ELSE IF tv.value = <<>> THEN act("skip")
       ELSE IF tag = tagExifIFDPointer
            THEN [act("sub") EXCEPT !.off = ToInt(Rd32(d, offset, bo))]
       ELSE IF TagName(tag) = <<>> THEN act("skip")
       ELSE [act("put") EXCEPT !.key = TagName(tag), !.value = tv.value]

\* The entry of parseIFD, up to its loop:
\*   "return" the offset does not fit, "panic" the slice panicked, or "walk"
\*   with the activation [base, i, n].
parseIFD(d, offset, bo) ==
    LET out(k, n) == [kind |-> k, frame |-> [base |-> AddInt(offset, 2), i |-> 0, n |-> n]]
    IN IF AddInt(offset, 2) > Len(d) THEN out("return", 0)
       ELSE IF ~SliceOk(d, offset, AddInt(offset, 2)) THEN out("panic", 0)
       ELSE out("walk", Rd16(d, offset, bo))

\* The loop of parseIFD has another entry to decode.
HasEntry(d, f) == f.i < f.n /\ f.base + f.i * 12 + 12 <= Len(d)

\* A ParseTIFF that reads every byte-order marker but MM as little-endian.
ParseTIFF_AnyOrder(d) ==
    LET bo == IF Len(d) >= 2 /\ d[1] = 77 /\ d[2] = 77 THEN "BE" ELSE "LE"
    IN IF Len(d) < 8
       THEN [kind |-> "error", text |-> TiffText.TiffTooShort, order |-> "LE", off |-> 0]
       ELSE [kind |-> "ok", text |-> <<>>, order |-> bo, off |-> ToInt(Rd32(d, 4, bo))]

\* ParseTIFF up to its call of parseIFD: "error" with the text, or "ok" with
\* the byte order and the first IFD's offset.
ParseTIFF(d) ==
    LET out(k, t, bo) == [kind |-> k, text |-> t, order |-> bo,
                          off |-> IF k = "ok" THEN ToInt(Rd32(d, 4, bo)) ELSE 0]
    IN IF Len(d) < 8 THEN out("error", TiffText.TiffTooShort, "LE")
       ELSE IF d[1] = 73 /\ d[2] = 73 THEN out("ok", <<>>, "LE")
       ELSE IF d[1] = 77 /\ d[2] = 77 THEN out("ok", <<>>, "BE")
       ELSE out("error", TiffText.TiffBadOrder, "LE")

----------------------------------------------------------------------------
(* JPEG decoder (SimpleExifParser.Parse) *)

\* fmt.Sprintf("(%d bytes)", n), "(%d bytes binary)", "present (%d bytes)"
BytesNote(n) == <<40>> \o Dec(n) \o JpegText.bytesClose
BinaryNote(n) == <<40>> \o Dec(n) \o JpegText.bytesBinaryClose
PresentNote(n) == JpegText.presentOpen \o Dec(n) \o JpegText.bytesClose

\* An isPrintable that takes 80% of the bytes for enough.
isPrintable_AtLeast(seg) ==
    LET printable == Cardinality({k \in 1..Len(seg) :
                        (seg[k] >= 32 /\ seg[k] <= 126) \/ seg[k] \in {9, 10, 13}})
    IN Len(seg) # 0 /\ 5 * printable >= 4 * Len(seg)

\* isPrintable: more than 80% of the bytes are printable ASCII, tab, LF or CR.
\* The float64 comparison printable/len > 0.8 decides as 5*printable > 4*len
\* for every length a segment can have.
isPrintable(seg) ==
    LET printable == Cardinality({k \in 1..Len(seg) :
                        (seg[k] >= 32 /\ seg[k] <= 126) \/ seg[k] \in {9, 10, 13}})
    IN Len(seg) # 0 /\ 5 * printable > 4 * Len(seg)

\* case 0xE0: segmentData[5] and segmentData[6] are read once the first five
\* bytes are "JFIF\0".
App0Payload(seg, m) ==
    IF HasPrefix(seg, JpegText.JFIF0)
    THEN IF Len(seg) < 7 THEN [map |-> m, panic |-> TRUE]
         ELSE [map |-> Put(m, JpegText.JFIF_Version, Dec(seg[6]) \o <<46>> \o Dec2(seg[7])),
               panic |-> FALSE]
    ELSE IF HasPrefix(seg, JpegText.JFXX0)
    THEN [map |-> Put(m, JpegText.JFXX_Extension, JpegText.present), panic |-> FALSE]
    ELSE IF Len(seg) > 0
    THEN [map |-> Put(m, JpegText.APP0_Data, BytesNote(Len(seg))), panic |-> FALSE]
    ELSE [map |-> m, panic |-> FALSE]

\* The marker switch for every case but APP0 and the Exif branch of APP1.
SegmentPayload(marker1, seg, m) ==
    LET n == Len(seg)
        generic(key) == IF isPrintable(seg) /\ n > 0 THEN Put(m, key, seg)
                        ELSE Put(m, key, BinaryNote(n))
    IN CASE marker1 = 254 -> Put(m, JpegText.JPEG_Comment, seg)
         [] marker1 = 225 ->
              IF HasPrefix(seg, JpegText.XmpNs)
              THEN Put(m, JpegText.XMP_Metadata, SubSeq(seg, 30, n))
              ELSE IF n > 0 THEN Put(m, JpegText.APP1_Data, BytesNote(n)) ELSE m
         [] marker1 = 226 ->
              IF n >= 14 /\ HasPrefix(seg, JpegText.IccPrefix)
              THEN Put(m, JpegText.ICC_Profile, PresentNote(n))
              ELSE IF HasPrefix(seg, JpegText.Fpxr)
              THEN Put(m, JpegText.FlashPix, JpegText.present)
              ELSE IF n > 0 THEN Put(m, JpegText.APP2_Data, BytesNote(n)) ELSE m
         [] marker1 \in 227..236 ->
              generic(JpegText.APP \o Dec(marker1 - 224) \o JpegText._Data)
         [] marker1 = 237 ->
              IF HasPrefix(seg, JpegText.Photoshop)
              THEN Put(m, JpegText.Photoshop_IRB, PresentNote(n))
              ELSE IF n > 0 THEN Put(m, JpegText.APP13_Data, BytesNote(n)) ELSE m
         [] marker1 = 238 ->
              IF HasPrefix(seg, JpegText.Adobe)
              THEN Put(m, JpegText.Adobe_APP14, JpegText.present)
              ELSE IF n > 0 THEN Put(m, JpegText.APP14_Data, BytesNote(n)) ELSE m
         [] marker1 = 239 -> generic(JpegText.APP15_Data)
         [] OTHER -> m

\* reader.Read(buf) of bytes.Reader for a buffer of n bytes at cursor p:
\* EOF when nothing is left, otherwise as many bytes as are there, the rest
\* of buf staying zero.
ReadAt(d, p, n) ==
    IF p >= Len(d) THEN [eof |-> TRUE, buf |-> Zeros(n), n |-> 0]
    ELSE LET got == Min(n, Len(d) - p)
         IN [eof |-> FALSE, buf |-> Slice(d, p, p + got) \o Zeros(n - got), n |-> got]

\* A marker test that takes no marker for the start of scan.
StartOfScan_Never(marker1) == FALSE

\* marker[1] == 0xDA
StartOfScan(marker1) == marker1 = 218

\* One iteration of the segment loop, from the cursor p with the map m:
\*   "break"     the loop ends            "continue"  a non-marker was skipped
\*   "segment"   a payload was handled    "tiff"      ParseTIFF is called on seg[6:]
\*   "panic"     an index expression panicked
\* trunc: the declared payload is longer than what is left of the buffer.
JpegStep(d, p, m) ==
    LET out(k, q, mm, seg, t) == [kind |-> k, pos |-> q, map |-> mm, seg |-> seg, trunc |-> t]
        mk == ReadAt(d, p, 2)
        p1 == p + mk.n
        size == BE16(d, p1)
        p2 == p1 + 2
        rd == ReadAt(d, p2, size - 2)
        p3 == p2 + rd.n
        seg == rd.buf
        trunc == size - 2 > Len(d) - p2
        marker1 == mk.buf[2]
        app0 == App0Payload(seg, m)
    IN IF mk.eof THEN out("break", p, m, <<>>, FALSE)
       ELSE IF mk.buf[1] # 255 THEN out("continue", p1, m, <<>>, FALSE)
       ELSE IF StartOfScan(marker1) THEN out("break", p1, m, <<>>, FALSE)
       ELSE IF Len(d) - p1 < 2 THEN out("break", p1, m, <<>>, FALSE)
       ELSE IF size < 2 THEN out("break", p2, m, <<>>, FALSE)
       ELSE IF rd.eof THEN out("break", p2, m, <<>>, trunc)
       ELSE IF marker1 = 224
            THEN IF app0.panic THEN out("panic", p3, m, seg, trunc)
                 ELSE out("segment", p3, app0.map, seg, trunc)
       ELSE IF marker1 = 225 /\ Len(seg) >= 6 /\ SubSeq(seg, 1, 4) = JpegText.Exif
            THEN out("tiff", p3, m, seg, trunc)
       ELSE out("segment", p3, SegmentPayload(marker1, seg, m), seg, trunc)

----------------------------------------------------------------------------
(* The run of one ParseImage call *)

\* Observations kept beside the program state:
\*   decoder  the decoder ParseImage invoked ("none" before and without one)
\*   visits   parseIFD calls made by the current ParseTIFF call
\*   walk     the container loop that ran last; adv, cont: by how much its
\*            last iteration moved the cursor and whether the loop went on
\*   iters    iterations made by the container loop
\*   iend     the PNG walk has been through an IEND chunk; atIend: the map
\*            as the first IEND chunk left it
\*   crc      type of the chunk the last PNG iteration handled when its stored
\*            CRC differed from the computed one (<<>> otherwise); good: the
\*            map that iteration would have left had the CRC matched
\*   over     the PNG walk met a chunk whose declared length and CRC reach past
\*            the end of the buffer; atOver: the map as it was before that chunk
\*   trunc    the JPEG walk met a segment longer than the rest of the buffer;
\*            before: the map as it was before that segment
\*   calls    ParseImage calls made so far, the running one included; prev:
\*            the buffer of the call before; seen: the result each buffer
\*            got from a call that returned
HistInit ==
    [decoder |-> "none", visits |-> 0, walk |-> "none", adv |-> 0, cont |-> FALSE,
     iters |-> 0, iend |-> FALSE, atIend |-> EmptyMap, crc |-> <<>>,
     good |-> EmptyMap, over |-> FALSE, atOver |-> EmptyMap, trunc |-> FALSE,
     before |-> EmptyMap, calls |-> 1, prev |-> <<>>, seen |-> EmptyMap]

Idle == /\ region' = <<>> /\ order' = "LE" /\ stack' = <<>> /\ ret' = "none"

\* ParseImage: detect, look the decoder up, call it or fail.
ParseImage ==
    /\ pc = "start"
    /\ LET det == DetectFormat(data)
           parser == GetParser(det.format)
       IN /\ format' = det.format
          /\ IF det.oob
             THEN /\ pc' = "panic" /\ fault' = "DetectFormat"
                  /\ UNCHANGED <<result, hist>>
             ELSE IF parser = "nil"
             THEN /\ pc' = "done" /\ result' = Fail("UnsupportedFormat")
                  /\ UNCHANGED <<fault, hist>>
             ELSE /\ pc' = parser
                  /\ hist' = [hist EXCEPT !.decoder = parser]
                  /\ UNCHANGED <<result, fault>>
    /\ UNCHANGED <<data, exifData, pos, region, order, stack, ret>>
    /\ UNCHANGED JsVars

\* A decoder's Parse called directly, without DetectFormat.
ParseDirect ==
    /\ pc = "start"
    /\ \E parser \in {"ExifParser", "PNGParser", "WebPParser", "HEIFParser"} :
          /\ pc' = parser
          /\ hist' = [hist EXCEPT !.decoder = parser]
    /\ UNCHANGED <<data, format, exifData, result, pos, region, order, stack, ret, fault>>
    /\ UNCHANGED JsVars

\* HEIFParser.Parse
HeifParse ==
    /\ pc = "HEIFParser"
    /\ pc' = "done"
    /\ result' = Fail("NotImplemented")
    /\ UNCHANGED <<data, format, exifData, pos, region, order, stack, ret, fault, hist>>
    /\ UNCHANGED JsVars

\* SimpleExifParser.Parse up to its segment loop: the start-of-image check.
JpegHeader ==
    /\ pc = "ExifParser"
    /\ LET hd == ReadAt(data, 0, 2)
       IN IF hd.eof \/ hd.buf # <<255, 216>>
          THEN /\ pc' = "done" /\ result' = Fail("InvalidSignature")
               /\ UNCHANGED <<pos, hist>>
          ELSE /\ pc' = "jpeg" /\ pos' = hd.n
               /\ hist' = [hist EXCEPT !.walk = "jpeg"]
               /\ UNCHANGED result
    /\ exifData' = MakeExifData(exifData)
    /\ UNCHANGED <<data, format, region, order, stack, ret, fault>>
    /\ UNCHANGED JsVars

\* The call p.ParseTIFF(d, exifData) made from the decoder loop back, with the
\* map m and the observations h: header check, then parseIFD up to its loop.
CallTIFF(d, back, m, h) ==
    LET hdr == ParseTIFF(d)
        ifd == parseIFD(d, hdr.off, hdr.order)
    IN /\ hist' = [h EXCEPT !.visits = IF hdr.kind = "ok" THEN 1 ELSE 0]
       /\ IF hdr.kind = "error"
          THEN /\ exifData' = Put(m, JpegText.EXIF_ParseError, hdr.text)
               /\ pc' = back /\ Idle /\ UNCHANGED fault
          ELSE IF ifd.kind = "panic"
          THEN /\ pc' = "panic" /\ fault' = "parseIFD" /\ exifData' = m /\ Idle
          ELSE IF ifd.kind = "return"
          THEN /\ pc' = back /\ exifData' = m /\ Idle /\ UNCHANGED fault
          ELSE /\ pc' = "tiff" /\ exifData' = m
               /\ region' = d /\ order' = hdr.order /\ ret' = back
               /\ stack' = <<ifd.frame>>
               /\ UNCHANGED fault

\* A payload that still holds the six bytes "Exif\0\0".
ExifPayload_Whole(seg) == seg

\* segmentData[6:], what the APP1 case hands to ParseTIFF
ExifPayload(seg) == SubSeq(seg, 7, Len(seg))

\* One iteration of the JPEG segment loop; the loop's exit returns the result.
JpegSegment ==
    /\ pc = "jpeg"
    /\ LET st == JpegStep(data, pos, exifData)
           first == st.trunc /\ ~hist.trunc
           h == [hist EXCEPT !.adv = st.pos - pos,
                             !.cont = st.kind \in {"continue", "segment", "tiff"},
                             !.iters = @ + 1,
                             !.trunc = @ \/ st.trunc,
                             !.before = IF first THEN exifData ELSE @]
       IN /\ pos' = st.pos
          /\ CASE st.kind = "break" ->
                    /\ pc' = "done"
                    /\ result' = Finish(exifData, "NoMetadataFound")
                    /\ hist' = h
                    /\ UNCHANGED <<exifData, region, order, stack, ret, fault>>
               [] st.kind = "continue" ->
                    /\ pc' = "jpeg"
                    /\ hist' = h
                    /\ UNCHANGED <<exifData, result, region, order, stack, ret, fault>>
               [] st.kind = "segment" ->
                    /\ pc' = "jpeg"
                    /\ exifData' = st.map
                    /\ hist' = h
                    /\ UNCHANGED <<result, region, order, stack, ret, fault>>
               [] st.kind = "panic" ->
                    /\ pc' = "panic"
                    /\ fault' = "APP0"
                    /\ hist' = h
                    /\ UNCHANGED <<exifData, result, region, order, stack, ret>>
               [] st.kind = "tiff" ->
                    /\ CallTIFF(ExifPayload(st.seg), "jpeg", exifData, h)
                    /\ UNCHANGED result
    /\ UNCHANGED <<data, format>>
    /\ UNCHANGED JsVars

\* One entry of the IFD being walked: parseTag, and parseIFD for a sub-IFD
\* pointer.  The call stack holds at most MaxDepth parseIFD activations.
TiffEntry ==
    /\ pc = "tiff"
    /\ HasEntry(region, stack[Len(stack)])
    /\ LET top == Len(stack)
           f == stack[top]
           e == f.base + f.i * 12
           t == parseTag(Rd16(region, e, order), Rd16(region, e + 2, order),
                         Rd32(region, e + 4, order), e + 8, region, order)
           sub == parseIFD(region, t.off, order)
           next == [stack EXCEPT ![top].i = @ + 1]
       IN CASE t.kind = "skip" ->
                 /\ stack' = next
                 /\ UNCHANGED <<pc, exifData, fault, hist>>
            [] t.kind = "put" ->
                 /\ stack' = next
                 /\ exifData' = Put(exifData, t.key, t.value)
                 /\ UNCHANGED <<pc, fault, hist>>
            [] t.kind = "panic" ->
                 /\ pc' = "panic" /\ fault' = "parseTag"
                 /\ UNCHANGED <<stack, exifData, hist>>
            [] t.kind = "sub" ->
                 /\ hist' = [hist EXCEPT !.visits = @ + 1]
                 /\ UNCHANGED exifData
                 /\ IF sub.kind = "return"
                    THEN stack' = next /\ UNCHANGED <<pc, fault>>
                    ELSE IF sub.kind = "panic"
                    THEN pc' = "panic" /\ fault' = "parseIFD" /\ UNCHANGED stack
                    ELSE IF top >= MaxDepth
                    THEN pc' = "panic" /\ fault' = "stack" /\ UNCHANGED stack
                    ELSE stack' = Append(next, sub.frame) /\ UNCHANGED <<pc, fault>>
    /\ UNCHANGED <<data, format, result, pos, region, order, ret>>
    /\ UNCHANGED JsVars

\* parseIFD returns: to the parseTag that called it, or from ParseTIFF to the
\* decoder loop.
TiffReturn ==
    /\ pc = "tiff"
    /\ ~HasEntry(region, stack[Len(stack)])
    /\ IF Len(stack) > 1
       THEN /\ stack' = SubSeq(stack, 1, Len(stack) - 1)
            /\ UNCHANGED <<pc, region, order, ret>>
       ELSE /\ pc' = ret
            /\ Idle
    /\ UNCHANGED <<data, format, exifData, result, pos, fault, hist>>
    /\ UNCHANGED JsVars

----------------------------------------------------------------------------
(* PNG decoder (PNGParser.Parse and its chunk handlers) *)

\* Bitwise exclusive or of two numbers below 2^bits.
RECURSIVE Xor(_, _, _)
Xor(a, b, bits) ==
    IF bits = 0 THEN 0 ELSE ((a + b) % 2) + 2 * Xor(a \div 2, b \div 2, bits - 1)

Xor32(u, v) == <<Xor(u[1], v[1], 16), Xor(u[2], v[2], 16)>>

\* u >> n for a uint32 and n <= 16.
RECURSIVE Pow2(_)
Pow2(n) == IF n = 0 THEN 1 ELSE 2 * Pow2(n - 1)
Shr32(u, n) == <<u[1] \div Pow2(n), (u[2] \div Pow2(n)) + (u[1] % Pow2(n)) * Pow2(16 - n)>>

\* The reflected IEEE polynomial 0xEDB88320 of hash/crc32.
IEEEPoly == <<60856, 33568>>

\* crc32.IEEETable: the CRC of each single byte.
RECURSIVE CrcBits(_, _)
CrcBits(c, k) ==
    IF k = 0 THEN c
    ELSE CrcBits(IF c[2] % 2 = 1 THEN Xor32(Shr32(c, 1), IEEEPoly) ELSE Shr32(c, 1), k - 1)

IEEETable == [n \in 0..255 |-> CrcBits(<<0, n>>, 8)]

\* The table-driven update of the CRC register c over b[k..].  (The test on
\* c only makes TLC evaluate the register at each byte.)
RECURSIVE CrcUpdate(_, _, _)
CrcUpdate(c, b, k) ==
    IF k > Len(b) \/ c[1] < 0 THEN c
    ELSE CrcUpdate(Xor32(IEEETable[Xor(c[2] % 256, b[k], 8)], Shr32(c, 8)), b, k + 1)

\* crc32.ChecksumIEEE
ChecksumIEEE(b) ==
    LET c == CrcUpdate(<<65535, 65535>>, b, 1) IN <<65535 - c[1], 65535 - c[2]>>

\* calculatedCRC: the checksum over chunk type and chunk data.
ChunkCrc(type, chunkData) == ChecksumIEEE(type \o chunkData)

\* adler32.Checksum, as zlib appends it to the compressed stream.
RECURSIVE AdlerSums(_, _, _, _)
AdlerSums(b, k, s1, s2) ==
    IF k > Len(b) \/ s1 + s2 < 0 THEN <<s2, s1>>
    ELSE AdlerSums(b, k + 1, (s1 + b[k]) % 65521, (s2 + s1 + b[k]) % 65521)

Adler32(b) == AdlerSums(b, 1, 1, 0)

\* The deflate blocks of a zlib stream from offset p on, out being the bytes
\* inflated so far.  Stored blocks are decoded; a block of reserved type, a
\* length that does not match its complement and a stream that ends early
\* are errors.  Huffman-coded blocks are not defined here.
RECURSIVE InflateBlocks(_, _, _)
InflateBlocks(z, p, out) ==
    LET bad == [ok |-> FALSE, bytes |-> <<>>]
        hdr == z[p + 1]
        type == (hdr \div 2) % 4
        len == LE16(z, p + 1)
        nlen == LE16(z, p + 3)
        body == Slice(z, p + 5, p + 5 + len)
        q == p + 5 + len
    IN IF p >= Len(z) THEN bad
       ELSE IF type = 3 THEN bad
       ELSE IF type # 0 THEN CHOOSE x \in {} : TRUE
       ELSE IF p + 5 > Len(z) \/ len + nlen # 65535 \/ q > Len(z) THEN bad
       ELSE IF hdr % 2 = 0 THEN InflateBlocks(z, q, out \o body)
       ELSE IF q + 4 > Len(z) \/ BE32(z, q) # Adler32(out \o body) THEN bad
       ELSE [ok |-> TRUE, bytes |-> out \o body]

\* An inflate that does not check the two header bytes of the stream.
Inflate_AnyHeader(z) ==
    IF Len(z) < 2 THEN [ok |-> FALSE, bytes |-> <<>>] ELSE InflateBlocks(z, 2, <<>>)

\* zlib.NewReader followed by io.Copy: the inflated bytes, or an error.
Inflate(z) ==
    IF Len(z) < 2 THEN [ok |-> FALSE, bytes |-> <<>>]
    ELSE IF z[1] % 16 # 8 \/ z[1] \div 16 > 7 \/ (z[1] * 256 + z[2]) % 31 # 0
            \/ (z[2] \div 32) % 2 = 1
    THEN [ok |-> FALSE, bytes |-> <<>>]
    ELSE InflateBlocks(z, 2, <<>>)

\* fmt.Sprintf("%04d", n)
Dec4(n) == IF n < 10 THEN <<48, 48, 48>> \o Dec(n)
           ELSE IF n < 100 THEN <<48, 48>> \o Dec(n)
           ELSE IF n < 1000 THEN <<48>> \o Dec(n)
           ELSE Dec(n)

parseIHDR(c, m) ==
    IF Len(c) < 13 THEN m
    ELSE LET colorType == c[10]
             m1 == Put(m, PngText.PNG_ImageWidth, DecU32(BE32(c, 0)))
             m2 == Put(m1, PngText.PNG_ImageHeight, DecU32(BE32(c, 4)))
             m3 == Put(m2, PngText.PNG_BitDepth, Dec(c[9]))
             m4 == Put(m3, PngText.PNG_ColorType,
                       CASE colorType = 0 -> PngText.Grayscale
                         [] colorType = 2 -> PngText.RGB
                         [] colorType = 3 -> PngText.Indexed
                         [] colorType = 4 -> PngText.GrayAlpha
                         [] colorType = 6 -> PngText.RGBAlpha
                         [] OTHER -> Dec(colorType))
             m5 == Put(m4, PngText.PNG_Compression, Dec(c[11]))
             m6 == Put(m5, PngText.PNG_Filter, Dec(c[12]))
         IN IF c[13] = 0 THEN Put(m6, PngText.PNG_Interlace, PngText.None)
            ELSE IF c[13] = 1 THEN Put(m6, PngText.PNG_Interlace, PngText.Adam7)
            ELSE m6

parseTEXt(c, m) ==
    LET nullPos == IndexNul(c)
    IN IF nullPos < 0 \/ nullPos >= Len(c) - 1 THEN m
       ELSE Put(m, PngText.PNG_ \o SubSeq(c, 1, nullPos), SubSeq(c, nullPos + 2, Len(c)))

parseZTXt(c, m) ==
    LET nullPos == IndexNul(c)
        text == Inflate(SubSeq(c, nullPos + 3, Len(c)))
    IN IF nullPos < 0 \/ nullPos + 2 >= Len(c) THEN m
       ELSE IF c[nullPos + 2] # 0 THEN m
       ELSE IF ~text.ok THEN m
       ELSE Put(m, PngText.PNG_ \o SubSeq(c, 1, nullPos), text.bytes)

parseITXt(c, m) ==
    LET nullPos1 == IndexNul(c)
        keyword == SubSeq(c, 1, nullPos1)
        compressionFlag == c[nullPos1 + 2]
        compressionMethod == c[nullPos1 + 3]
        rem1 == SubSeq(c, nullPos1 + 4, Len(c))
        nullPos2 == IndexNul(rem1)
        languageTag == SubSeq(rem1, 1, nullPos2)
        rem2 == SubSeq(rem1, nullPos2 + 2, Len(rem1))
        nullPos3 == IndexNul(rem2)
        translatedKeyword == SubSeq(rem2, 1, nullPos3)
        textData == SubSeq(rem2, nullPos3 + 2, Len(rem2))
        packed == compressionFlag = 1 /\ compressionMethod = 0
        text == Inflate(textData)
        details == IF languageTag # <<>> /\ translatedKeyword # <<>>
                   THEN PngText.lang \o languageTag \o <<44, 32>>
                        \o PngText.translated \o translatedKeyword
                   ELSE IF languageTag # <<>> THEN PngText.lang \o languageTag
                   ELSE PngText.translated \o translatedKeyword
        key == IF languageTag # <<>> \/ translatedKeyword # <<>>
               THEN PngText.PNG_ \o keyword \o <<32, 40>> \o details \o <<41>>
               ELSE PngText.PNG_ \o keyword
    IN IF nullPos1 < 0 \/ nullPos1 + 2 >= Len(c) THEN m
       ELSE IF nullPos2 < 0 THEN m
       ELSE IF nullPos3 < 0 THEN m
       ELSE IF packed /\ ~text.ok THEN m
       ELSE Put(m, key, IF packed THEN text.bytes ELSE textData)

parsePHYs(c, m) ==
    IF Len(c) < 9 THEN m
    ELSE LET m1 == Put(m, PngText.PNG_PixelsPerUnitX, DecU32(BE32(c, 0)))
             m2 == Put(m1, PngText.PNG_PixelsPerUnitY, DecU32(BE32(c, 4)))
         IN Put(m2, PngText.PNG_PixelUnit,
                IF c[9] = 0 THEN PngText.aspectRatio
                ELSE IF c[9] = 1 THEN PngText.meter
                ELSE PngText.unknown)

parseTIME(c, m) ==
    IF Len(c) < 7 THEN m
    ELSE Put(m, PngText.PNG_ModifyDate,
             Dec4(BE16(c, 0)) \o <<45>> \o Dec2(c[3]) \o <<45>> \o Dec2(c[4]) \o <<32>>
                 \o Dec2(c[5]) \o <<58>> \o Dec2(c[6]) \o <<58>> \o Dec2(c[7]))

parseICCP(c, m) ==
    LET nullPos == IndexNul(c)
        m1 == Put(m, PngText.PNG_ICCProfile, SubSeq(c, 1, nullPos))
    IN IF nullPos < 0 \/ nullPos + 2 >= Len(c) THEN m
       ELSE IF c[nullPos + 2] = 0 THEN Put(m1, PngText.PNG_ICCCompression, PngText.deflate)
       ELSE m1

\* case "sPLT"
parseSPLT(c, m) ==
    IF Len(c) > 0 /\ IndexNul(c) > 0
    THEN Put(m, PngText.PNG_Palette, SubSeq(c, 1, IndexNul(c)))
    ELSE m

\* The chunk-type switch for every case but eXIf.  The break of case "IEND"
\* leaves the switch; the for loop goes on.
ChunkPayload(type, c, m) ==
    CASE type = PngText.IHDR -> parseIHDR(c, m)
      [] type = PngText.tEXt -> parseTEXt(c, m)
      [] type = PngText.zTXt -> parseZTXt(c, m)
      [] type = PngText.iTXt -> parseITXt(c, m)
      [] type = PngText.pHYs -> parsePHYs(c, m)
      [] type = PngText.tIME -> parseTIME(c, m)
      [] type = PngText.iCCP -> parseICCP(c, m)
      [] type = PngText.sPLT -> parseSPLT(c, m)
      [] type = PngText.IEND -> m
      [] OTHER -> m

\* One iteration of the chunk loop, from the offset off with the map m:
\*   "end"    offset is at or past the end   "break"  a header or length does not fit
\*   "chunk"  a chunk was handled            "tiff"   ParseTIFF is called on the chunk
\*   "panic"  a slice expression panicked
\* offset += int(chunkLength) + 4, without the checksum's four bytes
SkipChunk_NoCrc(off1, chunkLength) == AddInt(off1, chunkLength)

\* offset += int(chunkLength) + 4: past the chunk data and its checksum
SkipChunk(off1, chunkLength) == AddInt(off1, AddInt(chunkLength, 4))

PngStep(d, off, m) ==
    LET out(k, q, mm, c, t) == [kind |-> k, pos |-> q, map |-> mm, chunk |-> c, type |-> t]
        chunkLength == ToInt(BE32(d, off))
        chunkType == Slice(d, off + 4, off + 8)
        off1 == off + 8
        stop == AddInt(off1, chunkLength)
        chunkData == Slice(d, off1, stop)
        chunkCRC == BE32(d, stop)
        warned == IF ChunkCrc(chunkType, chunkData) # chunkCRC
                  THEN Put(m, PngText.PNG_Warning, PngText.CrcMismatch \o chunkType)
                  ELSE m
        next == SkipChunk(off1, chunkLength)
    IN IF off >= Len(d) THEN out("end", off, m, <<>>, <<>>)
       ELSE IF off + 8 > Len(d) THEN out("break", off, m, <<>>, <<>>)
       ELSE IF AddInt(stop, 4) > Len(d) THEN out("break", off1, m, <<>>, chunkType)
       ELSE IF ~SliceOk(d, off1, stop) THEN out("panic", off1, m, <<>>, chunkType)
       ELSE IF chunkType = PngText.eXIf THEN out("tiff", next, warned, chunkData, chunkType)
       ELSE out("chunk", next, ChunkPayload(chunkType, chunkData, warned), chunkData, chunkType)

\* A signature check that compares the first four bytes only.
PngSignatureOk_Prefix(d) == Len(d) >= 4 /\ SubSeq(d, 1, 4) = SubSeq(pngSignature, 1, 4)

\* len(data) >= 8 and bytes.Equal(data[0:8], pngSignature)
PngSignatureOk(d) == Len(d) >= 8 /\ SubSeq(d, 1, 8) = pngSignature

\* PNGParser.Parse up to its chunk loop: the signature check.
PngHeader ==
    /\ pc = "PNGParser"
    /\ IF ~PngSignatureOk(data)
       THEN /\ pc' = "done" /\ result' = Fail("InvalidSignature")
            /\ UNCHANGED <<pos, hist>>
       ELSE /\ pc' = "png" /\ pos' = 8
            /\ hist' = [hist EXCEPT !.walk = "png"]
            /\ UNCHANGED result
    /\ exifData' = MakeExifData(exifData)
    /\ UNCHANGED <<data, format, region, order, stack, ret, fault>>
    /\ UNCHANGED JsVars

\* What the iteration st of the chunk loop, made on d with the map m, adds to
\* the observations when the chunk's stored CRC differs from the computed one.
CrcNote(st, d, m) ==
    IF st.kind \in {"chunk", "tiff"} /\ ChunkCrc(st.type, st.chunk) # BE32(d, st.pos - 4)
    THEN [crc |-> st.type,
          good |-> IF st.kind = "tiff" THEN m ELSE ChunkPayload(st.type, st.chunk, m)]
    ELSE [crc |-> <<>>, good |-> EmptyMap]

\* The chunk whose header starts at off declares, as an unsigned number, more
\* data than the buffer holds after the header, its CRC included.
Oversize(d, off) ==
    /\ off + 8 <= Len(d)
    /\ LET u == BE32(d, off)
       IN u[1] > 0 \/ u[2] + 4 > Len(d) - (off + 8)

\* One iteration of the PNG chunk loop; the loop's exit returns the result.
PngChunk ==
    /\ pc = "png"
    /\ LET st == PngStep(data, pos, exifData)
           iend == st.kind = "chunk" /\ st.type = PngText.IEND
           note == CrcNote(st, data, exifData)
           h == [hist EXCEPT !.adv = st.pos - pos,
                             !.cont = st.kind \in {"chunk", "tiff"},
                             !.iters = IF st.kind = "end" THEN @ ELSE @ + 1,
                             !.iend = @ \/ iend,
                             !.atIend = IF iend /\ ~hist.iend THEN st.map ELSE @,
                             !.over = @ \/ Oversize(data, pos),
                             !.atOver = IF ~hist.over /\ Oversize(data, pos)
                                        THEN exifData ELSE @,
                             !.crc = note.crc,
                             !.good = note.good]
       IN /\ pos' = st.pos
          /\ CASE st.kind \in {"end", "break"} ->
                    /\ pc' = "done"
                    /\ result' = Finish(exifData, "NoMetadataFound")
                    /\ hist' = h
                    /\ UNCHANGED <<exifData, region, order, stack, ret, fault>>
               [] st.kind = "chunk" ->
                    /\ pc' = "png"
                    /\ exifData' = st.map
                    /\ hist' = h
                    /\ UNCHANGED <<result, region, order, stack, ret, fault>>
               [] st.kind = "panic" ->
                    /\ pc' = "panic"
                    /\ fault' = "chunkData"
                    /\ hist' = h
                    /\ UNCHANGED <<exifData, result, region, order, stack, ret>>
               [] st.kind = "tiff" ->
                    /\ CallTIFF(st.chunk, "png", st.map, h)
                    /\ UNCHANGED result
    /\ UNCHANGED <<data, format>>
    /\ UNCHANGED JsVars

----------------------------------------------------------------------------
(* WebP decoder (WebPParser.Parse) *)

\* fmt.Sprintf("%04X", n) for n < 2^16, the half of "%08X".
Hex4(n) ==
    LET digit(x) == IF x < 10 THEN 48 + x ELSE 55 + x
    IN <<digit(n \div 4096), digit((n \div 256) % 16), digit((n \div 16) % 16), digit(n % 16)>>

\* chunkData[lo] | chunkData[lo+1]<<8 | chunkData[lo+2]<<16
LE24(c, lo) == c[lo + 1] + c[lo + 2] * 256 + c[lo + 3] * 65536

\* A canvas size that wraps at 24 bits.
Canvas_Wrap24(c, lo) == (LE24(c, lo) + 1) % 16777216

\* canvasWidth, canvasHeight: the 24-bit field plus one, as uint32
Canvas(c, lo) == LE24(c, lo) + 1

\* case "VP8X"
parseVP8X(c, m) ==
    LET flags == c[1]
        bit(mask) == (flags \div mask) % 2 = 1
        features == (IF bit(32) THEN WebpText.fICC ELSE <<>>)
                    \o (IF bit(16) THEN WebpText.fAlpha ELSE <<>>)
                    \o (IF bit(8) THEN WebpText.fEXIF ELSE <<>>)
                    \o (IF bit(4) THEN WebpText.fXMP ELSE <<>>)
                    \o (IF bit(2) THEN WebpText.fAnimation ELSE <<>>)
        m1 == IF features # <<>> THEN Put(m, WebpText.WebP_Features, features) ELSE m
        m2 == Put(m1, WebpText.WebP_Canvas_Width, Dec(Canvas(c, 4)))
    IN IF Len(c) >= 10 THEN Put(m2, WebpText.WebP_Canvas_Height, Dec(Canvas(c, 7)))
       ELSE m

\* case "ANIM"
parseANIM(c, m) ==
    LET bgColor == LE32(c, 0)
        m1 == Put(m, WebpText.WebP_Animation_BgColor,
                  WebpText.hex0x \o Hex4(bgColor[1]) \o Hex4(bgColor[2]))
    IN IF Len(c) >= 6 THEN Put(m1, WebpText.WebP_Animation_LoopCount, Dec(LE16(c, 4)))
       ELSE m

\* The FourCC switch for every case but EXIF.
RiffPayload(id, c, m) ==
    CASE id = WebpText.XMP_ -> Put(m, WebpText.XMP_Metadata, c)
      [] id = WebpText.VP8X -> parseVP8X(c, m)
      [] id = WebpText.ICCP ->
           Put(m, WebpText.ICC_Profile, WebpText.presentOpen \o Dec(Len(c)) \o WebpText.bytesClose)
      [] id = WebpText.ANIM -> parseANIM(c, m)
      [] id = WebpText.VP8_ -> Put(m, WebpText.WebP_Format, WebpText.Lossy)
      [] id = WebpText.VP8L -> Put(m, WebpText.WebP_Format, WebpText.Lossless)
      [] OTHER -> m

\* One iteration of the chunk loop, from the offset off with the map m:
\*   "end"    the loop condition is false   "break"  a header or size does not fit
\*   "chunk"  a chunk was handled           "tiff"   ParseTIFF is called on the chunk
\*   "panic"  a slice expression panicked
WebpStep(d, off, m) ==
    LET out(k, q, mm, c) == [kind |-> k, pos |-> q, map |-> mm, chunk |-> c]
        fileSize == ToInt(LE32(d, 4))
        chunkID == Slice(d, off, off + 4)
        size == LE32(d, off + 4)
        chunkSize == ToInt(size)
        off1 == off + 8
        stop == AddInt(off1, chunkSize)
        chunkData == Slice(d, off1, stop)
        next == IF size[2] % 2 = 1 THEN AddInt(stop, 1) ELSE stop
    IN IF ~(off < Len(d) /\ off < AddInt(fileSize, 8)) THEN out("end", off, m, <<>>)
       ELSE IF off + 8 > Len(d) THEN out("break", off, m, <<>>)
       ELSE IF stop > Len(d) THEN out("break", off1, m, <<>>)
       ELSE IF ~SliceOk(d, off1, stop) THEN out("panic", off1, m, <<>>)
       ELSE IF chunkID = WebpText.EXIF THEN out("tiff", next, m, chunkData)
       ELSE out("chunk", next, RiffPayload(chunkID, chunkData, m), chunkData)

\* WebPParser.Parse up to its chunk loop: the RIFF....WEBP check.
WebpHeader ==
    /\ pc = "WebPParser"
    /\ IF Len(data) < 12 \/ SubSeq(data, 1, 4) # WebpText.RIFF
          \/ SubSeq(data, 9, 12) # WebpText.WEBP
       THEN /\ pc' = "done" /\ result' = Fail("InvalidSignature")
            /\ UNCHANGED <<pos, hist>>
       ELSE /\ pc' = "webp" /\ pos' = 12
            /\ hist' = [hist EXCEPT !.walk = "webp"]
            /\ UNCHANGED result
    /\ exifData' = MakeExifData(exifData)
    /\ UNCHANGED <<data, format, region, order, stack, ret, fault>>
    /\ UNCHANGED JsVars

\* One iteration of the WebP chunk loop; the loop's exit returns the result.
WebpChunk ==
    /\ pc = "webp"
    /\ LET st == WebpStep(data, pos, exifData)
           h == [hist EXCEPT !.adv = st.pos - pos,
                             !.cont = st.kind \in {"chunk", "tiff"},
                             !.iters = IF st.kind = "end" THEN @ ELSE @ + 1]
       IN /\ pos' = st.pos
          /\ CASE st.kind \in {"end", "break"} ->
                    /\ pc' = "done"
                    /\ result' = Finish(exifData, "NoMetadataFound")
                    /\ hist' = h
                    /\ UNCHANGED <<exifData, region, order, stack, ret, fault>>
               [] st.kind = "chunk" ->
                    /\ pc' = "webp"
                    /\ exifData' = st.map
                    /\ hist' = h
                    /\ UNCHANGED <<result, region, order, stack, ret, fault>>
               [] st.kind = "panic" ->
                    /\ pc' = "panic"
                    /\ fault' = "chunkData"
                    /\ hist' = h
                    /\ UNCHANGED <<exifData, result, region, order, stack, ret>>
               [] st.kind = "tiff" ->
                    /\ CallTIFF(st.chunk, "webp", st.map, h)
                    /\ UNCHANGED result
    /\ UNCHANGED <<data, format>>
    /\ UNCHANGED JsVars

----------------------------------------------------------------------------
(* Input buffers *)

B16BE(n) == <<n \div 256, n % 256>>
B16LE(n) == <<n % 256, n \div 256>>
B32BE(n) == B16BE(n \div 65536) \o B16BE(n % 65536)
B32LE(n) == B16LE(n % 65536) \o B16LE(n \div 65536)

RECURSIVE Concat(_)
Concat(ss) == IF ss = <<>> THEN <<>> ELSE Head(ss) \o Concat(Tail(ss))

\* All sequences of at most n elements of S.
RECURSIVE SeqsUpTo(_, _)
SeqsUpTo(S, n) ==
    IF n = 0 THEN {<<>>}
    ELSE LET shorter == SeqsUpTo(S, n - 1)
         IN shorter \cup {Append(s, x) : s \in shorter, x \in S}

\* d without its last k bytes.
CutEnd(d, k) == SubSeq(d, 1, IF Len(d) > k THEN Len(d) - k ELSE 0)

\* One 12-byte IFD entry.
EntryLE(tag, type, count, value4) == B16LE(tag) \o B16LE(type) \o B32LE(count) \o value4
EntryBE(tag, type, count, value4) == B16BE(tag) \o B16BE(type) \o B32BE(count) \o value4

\* TIFF regions: header, IFD0 at offset 8, then whatever the entries point to.
TiffLE(ifd0, entries, rest) ==
    <<73, 73, 42, 0>> \o ifd0 \o B16LE(Len(entries) \div 12) \o entries \o rest
TiffBE(ifd0, entries, rest) ==
    <<77, 77, 0, 42>> \o ifd0 \o B16BE(Len(entries) \div 12) \o entries \o rest

TiffRegions ==
    [ \* Make = "Ab", stored inline
      makeInline |-> TiffLE(B32LE(8), EntryLE(tagMake, 2, 3, <<65, 98, 0, 0>>), B32LE(0)),
      \* Make = "Acme", stored at offset 26
      makeOffset |-> TiffLE(B32LE(8), EntryLE(tagMake, 2, 5, B32LE(26)),
                            B32LE(0) \o <<65, 99, 109, 101, 0>>),
      \* big-endian: IFD0 = {EXIF pointer -> 38, Model = "M"}, sub-IFD = {ISO = 100}
      subIfd |-> TiffBE(B32BE(8),
                        EntryBE(tagExifIFDPointer, 4, 1, B32BE(38))
                            \o EntryBE(tagModel, 2, 2, <<77, 0, 0, 0>>),
                        B32BE(0) \o B16BE(1)
                            \o EntryBE(tagISOSpeedRatings, 3, 1, <<0, 100, 0, 0>>)),
      \* IFD0 = {EXIF pointer -> 8}: the sub-IFD is IFD0 itself
      selfLoop |-> TiffLE(B32LE(8), EntryLE(tagExifIFDPointer, 4, 1, B32LE(8)), <<>>),
      \* byte-order marker "XX"
      badOrder |-> <<88, 88, 42, 0, 8, 0, 0, 0, 0, 0>>,
      \* four bytes only
      short |-> <<73, 73, 42, 0>>,
      \* first IFD at offset 0xFFFFFFFF
      farIfd |-> <<73, 73, 42, 0, 255, 255, 255, 255, 0, 0>>,
      \* Make with 5 bytes at offset 0xFFFFFFF0, then Software = "X"
      farValue |-> TiffLE(B32LE(8),
                          EntryLE(tagMake, 2, 5, <<240, 255, 255, 255>>)
                              \o EntryLE(tagSoftware, 2, 2, <<88, 0, 0, 0>>),
                          B32LE(0)),
      \* FNumber = 28/10, Orientation with count 2, Software = "X"
      mixed |-> TiffLE(B32LE(8),
                       EntryLE(tagFNumber, 5, 1, B32LE(46))
                           \o EntryLE(tagOrientation, 3, 2, <<1, 0, 1, 0>>)
                           \o EntryLE(tagSoftware, 2, 2, <<88, 0, 0, 0>>),
                       B32LE(28) \o B32LE(10)),
      \* UserComment, charset "ASCII", text "Hi"
      comment |-> TiffLE(B32LE(8), EntryLE(tagUserComment, 7, 10, B32LE(22)),
                         <<65, 83, 67, 73, 73, 0, 0, 0, 72, 105>>) ]

\* A JPEG segment: marker FF xx, big-endian length, payload.
Segment(marker1, payload) == <<255, marker1>> \o B16BE(Len(payload) + 2) \o payload

ExifSegment(tiff) == Segment(225, JpegText.Exif \o <<0, 0>> \o tiff)

\* Segments that buffers are built from freely.
JpegCore ==
    { Segment(254, <<72, 105>>),                          \* COM "Hi"
      Segment(254, <<89, 111, 33>>),                      \* COM "Yo!"
      Segment(224, JpegText.JFIF0 \o <<1, 1, 0, 0, 72, 0, 72, 0, 0>>),  \* APP0 JFIF 1.01
      ExifSegment(TiffRegions.makeInline),
      ExifSegment(TiffRegions.badOrder),
      Segment(219, <<0, 1, 2>>),                          \* DQT, not interpreted
      <<255, 218>>,                                       \* start of scan
      <<0>> }                                             \* a stray byte

\* Segments that appear first in a buffer.
JpegFirst ==
    { Segment(224, JpegText.JFIF0),                       \* APP0 "JFIF\0" and no more
      Segment(224, JpegText.JFIF0 \o <<1>>),              \* APP0 "JFIF\0" and one byte
      Segment(224, JpegText.JFXX0 \o <<16>>),
      Segment(224, <<1, 2, 3>>),
      Segment(224, <<>>),
      ExifSegment(TiffRegions.makeOffset),
      ExifSegment(TiffRegions.subIfd),
      ExifSegment(TiffRegions.selfLoop),
      ExifSegment(TiffRegions.short),
      ExifSegment(TiffRegions.farIfd),
      ExifSegment(TiffRegions.farValue),
      ExifSegment(TiffRegions.mixed),
      ExifSegment(TiffRegions.comment),
      Segment(225, JpegText.XmpNs \o <<60, 120, 47, 62>>),   \* XMP "<x/>"
      Segment(225, <<69, 120, 105>>),
      Segment(226, JpegText.IccPrefix \o <<1, 1, 0>>),
      Segment(226, JpegText.Fpxr),
      Segment(226, <<7>>),
      Segment(228, <<97, 98, 99, 100, 0>>),               \* APP4, 4 of 5 printable
      Segment(228, <<97, 98, 99, 100, 101>>),             \* APP4, all printable
      Segment(236, <<0, 1>>),                             \* APP12, binary
      Segment(237, JpegText.Photoshop \o <<56>>),
      Segment(237, <<1>>),
      Segment(238, JpegText.Adobe \o <<0, 100>>),
      Segment(238, <<1>>),
      Segment(239, <<104, 105>>),                         \* APP15 "hi"
      Segment(239, <<>>),
      <<255, 254, 0, 1>>,                                 \* COM with length 1
      <<255, 254, 0, 9, 65, 66>>,                         \* COM longer than the buffer
      <<0, 0>> }                                          \* two stray bytes

JpegInputs ==
    LET tails == SeqsUpTo(JpegCore, MaxSegs)
        short == SeqsUpTo(JpegCore, MaxSegs - 1)
        whole == {<<255, 216>> \o Concat(s) : s \in tails}
                 \cup {<<255, 216>> \o x \o Concat(s) : x \in JpegFirst, s \in short}
    IN {CutEnd(d, k) : d \in whole, k \in 0..MaxCut}

\* A PNG chunk: big-endian length, type, data, CRC-32 of type and data.
U32Bytes(u) == B16BE(u[1]) \o B16BE(u[2])
Chunk(type, chunkData) ==
    B32BE(Len(chunkData)) \o type \o chunkData \o U32Bytes(ChunkCrc(type, chunkData))

\* The same chunk with a stored CRC of zero.
BadCrcChunk(type, chunkData) == B32BE(Len(chunkData)) \o type \o chunkData \o <<0, 0, 0, 0>>

\* A zlib stream holding b in one stored deflate block.
Deflated(b) ==
    <<120, 1, 1>> \o B16LE(Len(b)) \o B16LE(65535 - Len(b)) \o b \o U32Bytes(Adler32(b))

\* Chunks that buffers are built from freely.
PngCore ==
    { Chunk(PngText.tEXt, <<67, 0, 72, 105>>),            \* tEXt C = "Hi"
      BadCrcChunk(PngText.tEXt, <<67, 0, 89, 111>>),      \* tEXt C = "Yo", CRC wrong
      Chunk(PngText.IEND, <<>>),
      Chunk(PngText.eXIf, TiffRegions.makeInline),
      Chunk(<<73, 68, 65, 84>>, <<1, 2>>),                \* IDAT, not interpreted
      Chunk(PngText.sPLT, <<112, 0, 8>>) }                \* sPLT "p"

\* Chunks that appear first in a buffer.
PngFirst ==
    { Chunk(PngText.IHDR, <<0, 0, 0, 2, 0, 0, 0, 3, 8, 6, 0, 0, 0>>),
      Chunk(PngText.IHDR, <<0, 1, 0, 0, 255, 255, 255, 255, 1, 5, 0, 0, 1>>),
      Chunk(PngText.tEXt, <<67, 72, 105>>),               \* tEXt without separator
      BadCrcChunk(PngText.tEXt, <<87, 97, 114, 110, 105, 110, 103, 0, 120>>),  \* Warning = "x"
      Chunk(PngText.zTXt, <<90, 0, 0>> \o Deflated(<<72, 105>>)),
      Chunk(PngText.zTXt, <<90, 0, 0, 120, 1, 7>>),       \* reserved block type
      Chunk(PngText.zTXt, <<90, 0, 0>> \o CutEnd(Deflated(<<72, 105>>), 1)),
      Chunk(PngText.zTXt, <<90, 0, 1, 0>>),               \* compression method 1
      Chunk(PngText.iTXt, <<84, 0, 0, 0, 0, 0, 72, 105>>),
      Chunk(PngText.iTXt, <<84, 0, 0, 0, 101, 110, 0, 116, 0, 72, 105>>),
      Chunk(PngText.iTXt, <<84, 0, 1, 0, 0, 0>> \o Deflated(<<72, 105>>)),
      Chunk(PngText.iTXt, <<84, 0, 1, 0, 0, 0, 1, 2>>),   \* not a zlib stream
      Chunk(PngText.pHYs, <<0, 0, 11, 19, 0, 0, 11, 19, 1>>),
      Chunk(PngText.tIME, <<7, 232, 2, 29, 23, 59, 7>>),
      Chunk(PngText.iCCP, <<115, 0, 0, 1>>),
      Chunk(PngText.eXIf, TiffRegions.selfLoop),
      Chunk(PngText.eXIf, TiffRegions.short),
      Chunk(PngText.eXIf, TiffRegions.subIfd),
      Chunk(PngText.eXIf, TiffRegions.farIfd),
      <<0, 0, 0, 100>> \o PngText.tEXt \o <<67, 0, 72, 105, 0, 0, 0, 0>>,   \* length 100
      <<255, 255, 255, 255>> \o PngText.tEXt \o <<67, 0, 72, 105>>,        \* length 2^32-1
      <<255, 255, 255, 252>> \o PngText.tEXt \o <<67, 0, 72, 105>>,        \* length 2^32-4
      <<127, 255, 255, 255>> \o PngText.tEXt \o <<67, 0, 72, 105>> }       \* length 2^31-1

PngInputs ==
    LET tails == SeqsUpTo(PngCore, MaxSegs)
        short == SeqsUpTo(PngCore, MaxSegs - 1)
        whole == {pngSignature \o Concat(s) : s \in tails}
                 \cup {pngSignature \o x \o Concat(s) : x \in PngFirst, s \in short}
    IN {CutEnd(d, k) : d \in whole, k \in 0..MaxCut}

\* A RIFF chunk: FourCC, little-endian size, payload, a pad byte after an odd size.
Riff(id, payload) ==
    id \o B32LE(Len(payload)) \o payload \o (IF Len(payload) % 2 = 1 THEN <<0>> ELSE <<>>)

\* Chunks that buffers are built from freely.
WebpCore ==
    { Riff(WebpText.VP8X, <<24, 0, 0, 0, 99, 0, 0, 49, 0, 0>>),     \* EXIF+Alpha, 100 x 50
      Riff(WebpText.VP8X, <<0, 0, 0, 0, 255, 255, 255, 0, 0, 0>>),  \* no flag, 2^24 x 1
      Riff(WebpText.XMP_, <<60, 120, 62>>),                         \* XMP "<x>", odd size
      Riff(WebpText.EXIF, TiffRegions.makeInline),
      Riff(WebpText.VP8_, <<1, 2>>),
      Riff(<<74, 85, 78, 75>>, <<>>) }                              \* JUNK, size 0

\* Chunks that appear first in a buffer.
WebpFirst ==
    { Riff(WebpText.VP8X, <<2, 0, 0, 0, 1>>),                       \* VP8X too short
      Riff(WebpText.VP8L, <<47>>),
      Riff(WebpText.ICCP, <<1, 2, 3, 4>>),
      Riff(WebpText.ANIM, <<255, 0, 171, 16, 3, 0>>),
      Riff(WebpText.ANIM, <<1, 2>>),
      Riff(WebpText.EXIF, TiffRegions.selfLoop),
      Riff(WebpText.EXIF, TiffRegions.badOrder),
      Riff(WebpText.EXIF, TiffRegions.makeOffset),
      WebpText.XMP_ \o <<100, 0, 0, 0, 60, 120>>,                   \* size 100
      WebpText.XMP_ \o <<255, 255, 255, 255, 60, 120>>,             \* size 2^32-1
      WebpText.XMP_ \o <<255, 255, 255, 127, 60, 120>> }            \* size 2^31-1

\* RIFF header: the declared size is that of the file after its first 8
\* bytes, or 4 (a file that claims to hold no chunk), or 2^31-1.
WebpInputs ==
    LET tails == SeqsUpTo(WebpCore, MaxSegs)
        short == SeqsUpTo(WebpCore, MaxSegs - 1)
        bodies == {Concat(s) : s \in tails}
                  \cup {x \o Concat(s) : x \in WebpFirst, s \in short}
        sizes(b) == {B32LE(Len(b) + 4), B32LE(4), <<255, 255, 255, 127>>}
        whole == UNION {{WebpText.RIFF \o z \o WebpText.WEBP \o b : z \in sizes(b)} : b \in bodies}
    IN {CutEnd(d, k) : d \in whole, k \in 0..MaxCut}

\* RIFF headers that declare 5 bytes: the file would end at offset 13, one
\* byte into the first chunk.
WebpShortRiff ==
    {WebpText.RIFF \o B32LE(5) \o WebpText.WEBP \o x : x \in WebpCore}

\* A WebP file of one VP8X chunk with the flag byte f and the raw 24-bit
\* canvas fields w and h.
B24LE(n) == <<n % 256, (n \div 256) % 256, n \div 65536>>
Vp8xFile(f, w, h) ==
    WebpText.RIFF \o B32LE(22) \o WebpText.WEBP
        \o Riff(WebpText.VP8X, <<f, 0, 0, 0>> \o B24LE(w) \o B24LE(h))

Vp8xFlags == {0, 16}
CanvasRaws == {0, 99, 255, 65535, 65536, 16777215}
Vp8xInputs == {Vp8xFile(f, w, h) : f \in Vp8xFlags, w \in CanvasRaws, h \in CanvasRaws}

\* Standalone TIFF files.
TiffInputs == {TiffRegions[k] : k \in DOMAIN TiffRegions}

\* Buffers around the signatures DetectFormat tests: a 4-byte head, bytes
\* 4..7, bytes 8..11 and one more byte, cut to every length.
DetectInputs ==
    LET heads == { <<255, 216, 255, 224>>, <<255, 216, 255, 254>>, <<255, 216, 0, 0>>,
                   <<73, 73, 42, 0>>, <<77, 77, 0, 42>>, <<73, 73, 0, 42>>,
                   <<137, 80, 78, 71>>, <<82, 73, 70, 70>>, <<82, 73, 70, 88>>,
                   <<0, 0, 0, 0>> }
        mids == { <<102, 116, 121, 112>>, <<13, 10, 26, 10>>, <<0, 4, 65, 66>>,
                  <<8, 0, 0, 0>> }
        ends == { <<87, 69, 66, 80>>, <<104, 101, 105, 99>>, <<0, 0, 0, 0>> }
        whole == {h \o m \o e \o <<0>> : h \in heads, m \in mids, e \in ends}
    IN UNION {{SubSeq(d, 1, n) : n \in 0..Len(d)} : d \in whole}

\* A little-endian TIFF whose IFD0 is one ASCII entry for tag with the value
\* v and its NUL: inline when that makes at most 4 bytes, at offset 26 otherwise.
AsciiTiff(tag, v) ==
    LET count == Len(v) + 1
    IN IF count <= 4
       THEN TiffLE(B32LE(8), EntryLE(tag, 2, count, v \o Zeros(4 - Len(v))), B32LE(0))
       ELSE TiffLE(B32LE(8), EntryLE(tag, 2, count, B32LE(26)), B32LE(0) \o v \o <<0>>)

\* A JPEG of the start-of-image marker and one APP1 Exif segment.
ExifJpeg(tiff) == <<255, 216>> \o ExifSegment(tiff)

AsciiTags == {tagMake, tagModel, tagSoftware, tagLensModel}
AsciiValues == {<<65>>, <<65, 98, 99>>, <<65, 99, 109, 101>>,
                <<67, 97, 110, 111, 110, 32, 69, 79, 83>>}
ExifAsciiInputs == {ExifJpeg(AsciiTiff(tag, v)) : tag \in AsciiTags, v \in AsciiValues}

\* A little-endian TIFF whose IFD0 holds the EXIF pointer, of the given type
\* and count, to the sub-IFD {ISO = 100} at offset 38, and then Model = "M".
PointerTiff(type, count) ==
    TiffLE(B32LE(8),
           EntryLE(tagExifIFDPointer, type, count, B32LE(38))
               \o EntryLE(tagModel, 2, 2, <<77, 0, 0, 0>>),
           B32LE(0) \o B16LE(1) \o EntryLE(tagISOSpeedRatings, 3, 1, <<100, 0, 0, 0>>)
               \o B32LE(0))

PointerTypes == {3, 4, 13}
PointerCounts == {1, 2}
PointerInputs == {ExifJpeg(PointerTiff(t, c)) : t \in PointerTypes, c \in PointerCounts}

\* A payload of n bytes whose first p are printable ASCII, tab, LF or CR and
\* whose others are not.
MixedPayload(n, p) ==
    LET printable == <<65, 9, 32, 10, 126, 13, 98, 99, 100, 101>>
        other == <<0, 31, 127, 255>>
    IN [k \in 1..n |-> IF k <= p THEN printable[((k - 1) % 10) + 1]
                       ELSE other[((k - p - 1) % 4) + 1]]

\* A JPEG of one generic APPn segment with such a payload, then the start of
\* scan and three bytes of scan data.
PrintableJpeg(marker1, n, p) ==
    <<255, 216>> \o Segment(marker1, MixedPayload(n, p)) \o <<255, 218, 0, 0, 0>>

GenericMarkers == {227, 236, 239}
PrintableCases == {<<1, 0>>, <<1, 1>>, <<5, 3>>, <<5, 4>>, <<5, 5>>,
                   <<10, 7>>, <<10, 8>>, <<10, 9>>}
PrintableInputs ==
    {PrintableJpeg(mk, c[1], c[2]) : mk \in GenericMarkers, c \in PrintableCases}

\* A little-endian TIFF whose IFD0 is Make = "A", the EXIF pointer and, when
\* again is TRUE, Make = "B"; the sub-IFD is Make = "C".
DupTiff(again) ==
    LET entries == EntryLE(tagMake, 2, 2, <<65, 0, 0, 0>>)
                       \o EntryLE(tagExifIFDPointer, 4, 1,
                                  B32LE(IF again THEN 50 ELSE 38))
                       \o (IF again THEN EntryLE(tagMake, 2, 2, <<66, 0, 0, 0>>) ELSE <<>>)
    IN TiffLE(B32LE(8), entries,
              B32LE(0) \o B16LE(1) \o EntryLE(tagMake, 2, 2, <<67, 0, 0, 0>>) \o B32LE(0))

DupTagInputs == {ExifJpeg(DupTiff(again)) : again \in BOOLEAN}

\* The TIFF payload t embedded in a container after the first k of two other
\* pieces of that container.
MovedExif(container, t, k) ==
    CASE container = "jpeg" ->
           <<255, 216>>
               \o Concat(SubSeq(<<Segment(254, <<72, 105>>), Segment(219, <<0, 1, 2>>)>>, 1, k))
               \o ExifSegment(t)
      [] container = "png" ->
           pngSignature
               \o Concat(SubSeq(<<Chunk(PngText.tEXt, <<67, 0, 72, 105>>),
                                  Chunk(<<73, 68, 65, 84>>, <<1, 2, 3>>)>>, 1, k))
               \o Chunk(PngText.eXIf, t)
      [] container = "webp" ->
           LET b == Concat(SubSeq(<<Riff(WebpText.XMP_, <<60, 120, 62>>),
                                    Riff(WebpText.VP8_, <<1, 2>>)>>, 1, k))
                        \o Riff(WebpText.EXIF, t)
           IN WebpText.RIFF \o B32LE(Len(b) + 4) \o WebpText.WEBP \o b

MovedPayloads == {"makeOffset", "subIfd"}
MovedExifInputs ==
    {MovedExif(c, TiffRegions[t], k) : c \in {"jpeg", "png", "webp"},
                                       t \in MovedPayloads, k \in 0..2}

\* A little-endian TIFF whose IFD0 is one entry of the given tag, type and
\* count, with 28/10 behind its value offset 38, and then Software = "X".
SkippedTiff(tag, type, count) ==
    TiffLE(B32LE(8),
           EntryLE(tag, type, count, B32LE(38)) \o EntryLE(tagSoftware, 2, 2, <<88, 0, 0, 0>>),
           B32LE(0) \o B32LE(28) \o B32LE(10))

\* Entries that parseTag has no value for: SHORT, LONG and RATIONAL with a
\* count other than 1, and types it does not decode.
SkippedEntries ==
    {<<tagOrientation, t, c>> : t \in {3, 4}, c \in {0, 2, 65537}}
        \cup {<<tagFNumber, 5, c>> : c \in {0, 2}}
        \cup {<<tagMake, t, 1>> : t \in {0, 1, 6, 7, 9, 10, 12}}

SkippedInputs == {ExifJpeg(SkippedTiff(e[1], e[2], e[3])) : e \in SkippedEntries}

\* Streams that zlib rejects, made from the stream of "Hi": one byte only,
\* compression method 9, a failing header check, a preset dictionary, a
\* reserved block type, LEN and NLEN that do not match, a cut checksum and a
\* wrong checksum.
BadStreams ==
    LET hi == Deflated(<<72, 105>>)
        body == SubSeq(hi, 3, Len(hi))
    IN { <<120>>,
         <<121, 1>> \o body,
         <<120, 2>> \o body,
         <<120, 32>> \o body,
         <<120, 1, 7>>,
         <<120, 1, 1, 2, 0, 0, 0>> \o SubSeq(hi, 8, Len(hi)),
         CutEnd(hi, 1),
         CutEnd(hi, 1) \o <<0>> }

\* A PNG of a zTXt chunk, or an iTXt chunk with compression flag 1 and method
\* 0, that holds such a stream, and then the tEXt chunk C = "Hi".
BadInflateInputs ==
    {pngSignature \o Chunk(PngText.zTXt, <<90, 0, 0>> \o s)
         \o Chunk(PngText.tEXt, <<67, 0, 72, 105>>) : s \in BadStreams}
    \cup {pngSignature \o Chunk(PngText.iTXt, <<84, 0, 1, 0, 0, 0>> \o s)
              \o Chunk(PngText.tEXt, <<67, 0, 72, 105>>) : s \in BadStreams}

Inputs ==
    JpegInputs \cup PngInputs \cup WebpInputs \cup TiffInputs \cup DetectInputs
        \cup ExifAsciiInputs \cup WebpShortRiff \cup Vp8xInputs \cup PointerInputs \cup PrintableInputs \cup DupTagInputs \cup MovedExifInputs \cup SkippedInputs \cup BadInflateInputs

----------------------------------------------------------------------------
(* Specification *)

\* The extension's scripts have made no call.
JsIdle ==
    /\ modals = <<>>
    /\ loader = [initialized |-> FALSE, loading |-> FALSE, loadPromise |-> 0,
                 promises |-> <<>>, callers |-> <<>>]

Init ==
    /\ data \in Inputs
    /\ pc = "start"
    /\ format = FormatUnknown
    /\ exifData = EmptyMap
    /\ result = NoResult
    /\ pos = 0
    /\ region = <<>>
    /\ order = "LE"
    /\ stack = <<>>
    /\ ret = "none"
    /\ fault = "none"
    /\ hist = HistInit
    /\ JsIdle

Next ==
    \/ ParseImage
    \/ HeifParse
    \/ JpegHeader
    \/ JpegSegment
    \/ PngHeader
    \/ PngChunk
    \/ WebpHeader
    \/ WebpChunk
    \/ TiffEntry
    \/ TiffReturn

Spec == Init /\ [][Next]_vars

\* Buffers handed to a decoder directly: the signature probes, the TIFF
\* regions and every one-segment or one-chunk file.
DirectInputs ==
    DetectInputs \cup TiffInputs
        \cup {<<255, 216>> \o s : s \in JpegCore \cup JpegFirst}
        \cup {pngSignature \o c : c \in PngCore}
        \cup {WebpText.RIFF \o B32LE(Len(c) + 4) \o WebpText.WEBP \o c : c \in WebpCore}

InitDirect ==
    /\ data \in DirectInputs
    /\ pc = "start"
    /\ format = FormatUnknown
    /\ exifData = EmptyMap
    /\ result = NoResult
    /\ pos = 0
    /\ region = <<>>
    /\ order = "LE"
    /\ stack = <<>>
    /\ ret = "none"
    /\ fault = "none"
    /\ hist = HistInit
    /\ JsIdle

NextDirect ==
    \/ ParseDirect
    \/ HeifParse
    \/ JpegHeader
    \/ JpegSegment
    \/ PngHeader
    \/ PngChunk
    \/ WebpHeader
    \/ WebpChunk
    \/ TiffEntry
    \/ TiffReturn

SpecDirect == InitDirect /\ [][NextDirect]_vars


\* Buffers of repeated calls: a JPEG with an Exif segment, a PNG with a text
\* chunk, a WebP with a VP8X chunk and a HEIF file.
CallInputs ==
    { ExifJpeg(AsciiTiff(tagMake, <<65, 99, 109, 101>>)),
      pngSignature \o Chunk(PngText.tEXt, <<67, 0, 72, 105>>) \o Chunk(PngText.IEND, <<>>),
      Vp8xFile(16, 99, 99),
      <<0, 0, 0, 24, 102, 116, 121, 112, 104, 101, 105, 99>> }

\* The call has returned and the host calls ParseImage again, on the buffer d:
\* the locals of the call that returned are dead, and what they held stays in
\* place until the new call initialises them.  At most MaxCalls calls are made.
NextCall ==
    /\ pc = "done"
    /\ hist.calls < MaxCalls
    /\ \E d \in CallInputs :
          /\ data' = d
          /\ pc' = "start"
          /\ result' = NoResult
          /\ hist' = [HistInit EXCEPT !.calls = hist.calls + 1, !.prev = data,
                                      !.seen = Put(hist.seen, data, result)]
    /\ UNCHANGED <<format, exifData, pos, region, order, stack, ret, fault>>
    /\ UNCHANGED JsVars

InitCalls ==
    /\ data \in CallInputs
    /\ pc = "start"
    /\ format = FormatUnknown
    /\ exifData = EmptyMap
    /\ result = NoResult
    /\ pos = 0
    /\ region = <<>>
    /\ order = "LE"
    /\ stack = <<>>
    /\ ret = "none"
    /\ fault = "none"
    /\ hist = HistInit
    /\ JsIdle

NextCalls ==
    \/ Next
    \/ NextCall

SpecCalls == InitCalls /\ [][NextCalls]_vars
----------------------------------------------------------------------------
(* The modal overlay (ui/modal.js) *)

\* new Modal(): no overlay yet, no listener registered.
\*   overlay    "null", "detached" (built, not in the document) or "attached"
\*   listeners  the click / keydown / wheel listeners are registered
\*   exif       "none", "loading", or how the loader settled: "data", "error"
NewModal == [overlay |-> "null", listeners |-> FALSE, exif |-> "none"]

\* Modal.hide: run the cleanups, take this modal's overlay out of the
\* document when it is there, forget the elements.
ModalHide(m) == [m EXCEPT !.overlay = "null", !.listeners = FALSE]

\* Modal.show up to its await: hide this modal, build the structure, start the
\* EXIF loader.
ModalShow(m) == [ModalHide(m) EXCEPT !.overlay = "detached", !.exif = "loading"]

\* The overlays (elements with id exif-viewer-modal-container) in the document.
AttachedOverlays == {i \in DOMAIN modals : modals[i].overlay = "attached"}

\* showModal(imageUrl, exifLoader): a new Modal, and its show().
ShowModal ==
    /\ Len(modals) < MaxModals
    /\ modals' = Append(modals, ModalShow(NewModal))
    /\ UNCHANGED <<GoVars, loader>>

\* The EXIF loader of a modal settles and show() resumes: the data or the
\* error message is put in, the overlay is appended to document.body and the
\* listeners are registered.
ExifSettled ==
    /\ \E i \in DOMAIN modals, outcome \in {"data", "error"} :
          /\ modals[i].exif = "loading"
          /\ modals' = [modals EXCEPT ![i] = [overlay |-> "attached", listeners |-> TRUE,
                                             exif |-> outcome]]
    /\ UNCHANGED <<GoVars, loader>>

\* A click on the close button or on the overlay of an attached modal.
CloseClick ==
    /\ \E i \in AttachedOverlays : modals' = [modals EXCEPT ![i] = ModalHide(modals[i])]
    /\ UNCHANGED <<GoVars, loader>>

\* The Escape key: the keydown listener of every modal that has one runs.
EscapeKey ==
    /\ \E i \in DOMAIN modals : modals[i].listeners
    /\ modals' = [i \in DOMAIN modals |->
                     IF modals[i].listeners THEN ModalHide(modals[i]) ELSE modals[i]]
    /\ UNCHANGED <<GoVars, loader>>

\* A page on which the engine is not running.
GoIdle ==
    /\ data = <<>>
    /\ pc = "start"
    /\ format = FormatUnknown
    /\ exifData = EmptyMap
    /\ result = NoResult
    /\ pos = 0
    /\ region = <<>>
    /\ order = "LE"
    /\ stack = <<>>
    /\ ret = "none"
    /\ fault = "none"
    /\ hist = HistInit

InitModal == GoIdle /\ JsIdle

NextModal ==
    \/ ShowModal
    \/ ExifSettled
    \/ CloseClick
    \/ EscapeKey

SpecModal == InitModal /\ [][NextModal]_vars

----------------------------------------------------------------------------
(* The loader of the wasm module (wasm/loader-sw.js, wasm/loader.js) *)

\* The methods of WasmExifParser that load the module.
LoaderOps == {"load", "parseExif", "detectFormat", "getSupportedFormats"}

\* A load that leaves loading set when _loadWasm failed.
AfterLoad_NoFinally(l, ok) ==
    [l EXCEPT !.initialized = @ \/ ok, !.loading = IF ok THEN FALSE ELSE @]

\* load() after `await this.loadPromise`: initialized = true when the promise
\* resolved, and loading = false in the finally block either way.
AfterLoad(l, ok) == [l EXCEPT !.initialized = @ \/ ok, !.loading = FALSE]

\* A caller: the method it called, where it is ("owner": in load(), awaiting
\* the promise it made; "waiter": awaiting the promise load() returned;
\* "returned"; "thrown") and the promise it awaits.
Caller(op, at, p) == [op |-> op, at |-> at, promise |-> p]

\* A call of one of the methods, run up to its first await.  parseExif,
\* detectFormat and getSupportedFormats call load() when initialized is false;
\* load() returns at once when initialized, returns loadPromise when loading,
\* and otherwise sets loading and starts _loadWasm.
LoaderCall ==
    /\ Len(loader.callers) < MaxLoadCalls
    /\ \E op \in LoaderOps :
          LET started == Len(loader.promises) + 1
          IN IF loader.initialized
             THEN loader' = [loader EXCEPT !.callers = Append(@, Caller(op, "returned", 0))]
             ELSE IF loader.loading
             THEN loader' = [loader EXCEPT
                                !.callers = Append(@, Caller(op, "waiter", loader.loadPromise))]
             ELSE loader' = [loader EXCEPT
                                !.loading = TRUE,
                                !.promises = Append(@, "pending"),
                                !.loadPromise = started,
                                !.callers = Append(@, Caller(op, "owner", started))]
    /\ UNCHANGED <<GoVars, modals>>

\* _loadWasm finishes: its promise resolves, or rejects with one of its errors.
LoadSettles ==
    /\ \E p \in DOMAIN loader.promises, outcome \in {"resolved", "rejected"} :
          /\ loader.promises[p] = "pending"
          /\ loader' = [loader EXCEPT !.promises[p] = outcome]
    /\ UNCHANGED <<GoVars, modals>>

\* The caller that started the load resumes after its await.
OwnerResumes ==
    /\ \E c \in DOMAIN loader.callers :
          LET settled == loader.promises[loader.callers[c].promise]
              after == AfterLoad(loader, settled = "resolved")
          IN /\ loader.callers[c].at = "owner"
             /\ settled # "pending"
             /\ loader' = [after EXCEPT !.callers[c].at =
                               IF settled = "resolved" THEN "returned" ELSE "thrown"]
    /\ UNCHANGED <<GoVars, modals>>

\* A caller that was handed loadPromise resumes when it has settled.
WaiterResumes ==
    /\ \E c \in DOMAIN loader.callers :
          LET settled == loader.promises[loader.callers[c].promise]
          IN /\ loader.callers[c].at = "waiter"
             /\ settled # "pending"
             /\ loader' = [loader EXCEPT !.callers[c].at =
                               IF settled = "resolved" THEN "returned" ELSE "thrown"]
    /\ UNCHANGED <<GoVars, modals>>

InitLoader == GoIdle /\ JsIdle

NextLoader ==
    \/ LoaderCall
    \/ LoadSettles
    \/ OwnerResumes
    \/ WaiterResumes

SpecLoader == InitLoader /\ [][NextLoader]_vars

----------------------------------------------------------------------------
(* Properties *)

\* The call has returned a result.
Returned == pc = "done"

\* The keys of the mapped ASCII entries with a non-empty value in the first
\* IFD of the TIFF buffer d.
Ifd0AsciiTags(d) ==
    LET hdr == ParseTIFF(d)
        ifd == parseIFD(d, hdr.off, hdr.order)
        f == ifd.frame
        at(i) == f.base + i * 12
        tag(i) == parseTag(Rd16(d, at(i), hdr.order), Rd16(d, at(i) + 2, hdr.order),
                           Rd32(d, at(i) + 4, hdr.order), at(i) + 8, d, hdr.order)
    IN IF hdr.kind # "ok" \/ ifd.kind # "walk" THEN {}
       ELSE {tag(i).key : i \in {j \in 0..(f.n - 1) :
                                   /\ HasEntry(d, [f EXCEPT !.i = j])
                                   /\ Rd16(d, at(j) + 2, hdr.order) = 2
                                   /\ tag(j).kind = "put"}}

\* C1: a buffer that DetectFormat classifies as TIFF is handed to the IFD
\* walker: when its first IFD holds a mapped ASCII tag with a non-empty
\* value, parseImage returns a map that contains that tag, not a signature
\* error.
C1_TiffBufferWalked ==
    (pc # "start" /\ format = FormatTIFF /\ Ifd0AsciiTags(data) # {})
        => /\ pc # "panic"
           /\ Returned => /\ result.err = "none"
                          /\ Ifd0AsciiTags(data) \subseteq DOMAIN result.map

\* C2: the per-marker payload handlers of the JPEG decoder read only bytes of
\* the payload they were given; an APP0 payload of 5 or 6 bytes that begins
\* "JFIF\0" is handled without a read past its end and without aborting the
\* parse.
C2_App0WithinPayload == fault # "APP0"

\* C3: ParseTIFF terminates: the IFD walk, recursive walks started by EXIF
\* sub-IFD pointers included, makes a number of IFD visits bounded by the
\* length of the region.
C3_IfdVisitsBounded == pc = "tiff" => hist.visits <= Len(region)

\* The least cursor advance of a loop iteration that goes on, per walk.
HeaderSize(walk) ==
    CASE walk = "jpeg" -> 2
      [] walk = "png" -> 12
      [] walk = "webp" -> 8
      [] OTHER -> 0

\* C4, as stated: in each container walk an iteration that does not exit the
\* loop moves the cursor on by at least 2 bytes in JPEG, 12 in PNG and 8 in
\* WebP, so each walk ends after at most len(buffer) iterations.
C4_AdvancesByHeader ==
    /\ hist.cont => hist.adv >= HeaderSize(hist.walk)
    /\ hist.iters <= Len(data)

\* C4: in each container walk an iteration that does not exit the loop moves
\* the cursor on by at least 12 bytes in PNG, 8 in WebP and 2 in JPEG, except
\* that a JPEG iteration that reads the last byte of the buffer and finds it
\* is not FF moves it on by 1; each walk ends after at most len(buffer)
\* iterations.
C4_CursorAdvances ==
    /\ hist.cont =>
          \/ hist.adv >= HeaderSize(hist.walk)
          \/ hist.walk = "jpeg" /\ hist.adv = 1 /\ pos = Len(data)
                /\ data[Len(data)] # 255
    /\ hist.iters <= Len(data)

\* A chunk that declares length 0 has been walked over and the loop goes on.
C4_ZeroLengthChunk ==
    /\ hist.cont
    /\ \/ hist.walk = "png" /\ hist.adv = 12
       \/ hist.walk = "webp" /\ hist.adv = 8

\* C5: the PNG walk ends at the IEND chunk: no chunk that follows an IEND
\* chunk in the buffer contributes a field or a CRC warning to the returned
\* map.
C5_IendEndsWalk ==
    hist.iend => /\ exifData = hist.atIend
                 /\ Returned => result = Finish(hist.atIend, "NoMetadataFound")

\* C6: when a JPEG segment declares more payload than the buffer has left,
\* the walk halts at that segment: the segment emits no field and the result
\* holds exactly the fields decoded from the earlier segments.
C6_TruncatedSegmentHalts ==
    hist.trunc => /\ pc \in {"jpeg", "done"}
                  /\ exifData = hist.before
                  /\ Returned => result = Finish(hist.before, "NoMetadataFound")

\* The five signatures, as byte patterns of a buffer.
IsJPEG(d) == HasPrefix(d, <<255, 216, 255>>)
IsTIFF(d) == HasPrefix(d, <<73, 73, 42, 0>>) \/ HasPrefix(d, <<77, 77, 0, 42>>)
IsPNG(d) == HasPrefix(d, pngSignature)
IsWebP(d) == HasPrefix(d, <<82, 73, 70, 70>>) /\ Len(d) >= 12
                /\ SubSeq(d, 9, 12) = <<87, 69, 66, 80>>
IsHEIF(d) == Len(d) >= 8 /\ SubSeq(d, 5, 8) = <<102, 116, 121, 112>>

\* The formats whose signature the buffer d carries.
Carried(d) ==
    {f \in {FormatJPEG, FormatTIFF, FormatPNG, FormatWebP, FormatHEIF} :
        CASE f = FormatJPEG -> IsJPEG(d)
          [] f = FormatTIFF -> IsTIFF(d)
          [] f = FormatPNG -> IsPNG(d)
          [] f = FormatWebP -> IsWebP(d)
          [] OTHER -> IsHEIF(d)}

Detected == pc # "start" /\ fault # "DetectFormat"

C8_ShortJpegDetected == (Detected /\ IsJPEG(data)) => format = FormatJPEG

\* C9: DetectFormat classifies a buffer as PNG only when its first 8 bytes
\* are the PNG signature, so every buffer classified as PNG passes the PNG
\* decoder's own signature check.
C9_PngFullSignature ==
    (Detected /\ format = FormatPNG) =>
        /\ IsPNG(data)
        /\ Returned => result.err # "InvalidSignature"

\* C10: parseImage returns the UnsupportedFormat error, invoking no decoder
\* and reading no byte outside the buffer, for the empty buffer and for every
\* buffer that carries none of the known signatures.
C10_NoSignatureUnsupported ==
    (pc # "start" /\ Carried(data) = {}) =>
        /\ Returned
        /\ result = Fail("UnsupportedFormat")
        /\ hist.decoder = "none"
        /\ fault = "none"

\* The start-of-image check of the JPEG decoder, as a byte pattern.
HasSOI(d) == Len(d) >= 2 /\ d[1] = 255 /\ d[2] = 216

\* The decoder that was invoked has made its signature check on a buffer
\* that fails it.
SignatureFailed ==
    \/ hist.decoder = "ExifParser" /\ pc # "ExifParser" /\ ~HasSOI(data)
    \/ hist.decoder = "PNGParser" /\ pc # "PNGParser" /\ ~IsPNG(data)
    \/ hist.decoder = "WebPParser" /\ pc # "WebPParser" /\ ~IsWebP(data)

\* C11: when a decoder's signature check fails, Parse returns an error with a
\* nil map and walks no segment or chunk.
C11_SignatureRejected ==
    SignatureFailed =>
        /\ Returned
        /\ result = Fail("InvalidSignature")
        /\ hist.walk = "none" /\ hist.iters = 0
        /\ exifData = EmptyMap

\* The WebP decoder, called on a buffer that is no RIFF....WEBP file, has
\* returned.
C11_WebpRejected == SignatureFailed /\ hist.decoder = "WebPParser" /\ Len(data) >= 12

AsciiName(tag) ==
    CASE tag = tagMake -> TiffText.Make
      [] tag = tagModel -> TiffText.Model
      [] tag = tagSoftware -> TiffText.Software
      [] tag = tagLensModel -> TiffText.LensModel

\* C13: for a JPEG of the start-of-image marker and one APP1 segment "Exif\0\0"
\* plus a little-endian TIFF whose IFD0 is a single ASCII entry for a mapped
\* tag with the NUL-terminated value v, parseImage returns exactly the map
\* {tagName: v}, with v stored inline (count <= 4) and at an offset alike.
C13_SingleAsciiTag ==
    data \in ExifAsciiInputs =>
        /\ pc # "panic"
        /\ Returned =>
              \A tag \in AsciiTags, v \in AsciiValues :
                  data = ExifJpeg(AsciiTiff(tag, v)) =>
                      result = Ok(Put(EmptyMap, AsciiName(tag), v))

\* The call on a value stored at an offset has returned.
C13_OffsetValueReturned ==
    /\ Returned
    /\ data = ExifJpeg(AsciiTiff(tagLensModel, <<67, 97, 110, 111, 110, 32, 69, 79, 83>>))
    /\ result.err = "none"

\* C14: a PNG chunk whose stored CRC-32 differs from the computed one is
\* decoded as it would be with a correct CRC, a warning field is added to the
\* map and the walk goes on with the next chunk; the result is a success.
C14_CrcMismatchWarns ==
    (hist.crc # <<>> /\ pc # "panic") =>
        /\ pc \in {"png", "tiff"}
        /\ PngText.PNG_Warning \in DOMAIN exifData
        /\ exifData[PngText.PNG_Warning] = PngText.CrcMismatch \o hist.crc
        /\ \A k \in DOMAIN hist.good \ {PngText.PNG_Warning} :
              k \in DOMAIN exifData /\ (pc = "png" => exifData[k] = hist.good[k])

\* C15: when a chunk of a buffer with a valid PNG signature declares a length
\* such that its data and CRC reach past the end of the buffer, the walk
\* halts at that chunk: parseImage succeeds with exactly the fields of the
\* earlier chunks, and returns NoMetadataFound when there are none.
C15_OversizeChunkHalts ==
    hist.over =>
        /\ Returned
        /\ exifData = hist.atOver
        /\ result = Finish(hist.atOver, "NoMetadataFound")

\* The bytes FF DA stand at offset p of the buffer d.
ScanMarkerAt(d, p) == p + 2 <= Len(d) /\ d[p + 1] = 255 /\ d[p + 2] = 218

\* C16: the JPEG walk stops at the first start-of-scan marker FF DA it reads
\* at a marker position: the call returns what the map held then, and no
\* segment after the marker contributes a field.
C16_StopsAtStartOfScan ==
    [][(pc = "jpeg" /\ ScanMarkerAt(data, pos)) =>
          /\ pc' = "done"
          /\ exifData' = exifData
          /\ result' = Finish(exifData, "NoMetadataFound")]_vars

\* The walk has returned at a start-of-scan marker that an APP1 segment
\* follows.
C16_SegmentAfterScan ==
    /\ Returned /\ hist.walk = "jpeg" /\ pos >= 2
    /\ ScanMarkerAt(data, pos - 2)
    /\ Len(data) >= pos + 4 /\ data[pos + 1] = 255 /\ data[pos + 2] = 225

\* min(bufferLength, declaredRiffSize + 8) of the buffer d.
RiffBound(d) ==
    LET declared == LE32(d, 4)[1] * 65536 + LE32(d, 4)[2]
    IN IF declared + 8 < Len(d) THEN declared + 8 ELSE Len(d)

\* The offset after the payload of the chunk whose header is at off.
RiffChunkEnd(d, off) == off + 8 + LE32(d, off + 4)[1] * 65536 + LE32(d, off + 4)[2]

\* C17: the WebP chunk walk is bounded by min(bufferLength, declaredRiffSize
\* + 8): an iteration that puts a field into the map, or hands its payload to
\* the TIFF walker, has read a chunk whose header and payload end at or
\* before that bound.
C17_WalkWithinRiffBound ==
    [][(pc = "webp" /\ (exifData' # exifData \/ pc' = "tiff")) =>
          RiffChunkEnd(data, pos) <= RiffBound(data)]_vars

\* The decimal text of raw + 1, written out for the raw values of CanvasRaws.
CanvasText(raw) ==
    CASE raw = 0 -> <<49>>                                       \* "1"
      [] raw = 99 -> <<49, 48, 48>>                              \* "100"
      [] raw = 255 -> <<50, 53, 54>>                             \* "256"
      [] raw = 65535 -> <<54, 53, 53, 51, 54>>                   \* "65536"
      [] raw = 65536 -> <<54, 53, 53, 51, 55>>                   \* "65537"
      [] raw = 16777215 -> <<49, 54, 55, 55, 55, 50, 49, 54>>    \* "16777216"

\* C18: for a VP8X chunk of 10 bytes and raw 24-bit canvas fields w and h, the
\* call returns a map whose WebP_Canvas_Width and WebP_Canvas_Height are the
\* decimal texts of w + 1 and h + 1 (16777216 for the largest raw value),
\* whether or not a feature flag is set.
C18_CanvasIsRawPlusOne ==
    (data \in Vp8xInputs /\ Returned) =>
        \A f \in Vp8xFlags, w \in CanvasRaws, h \in CanvasRaws :
            data = Vp8xFile(f, w, h) =>
                /\ result.err = "none"
                /\ {WebpText.WebP_Canvas_Width, WebpText.WebP_Canvas_Height} \subseteq DOMAIN result.map
                /\ result.map[WebpText.WebP_Canvas_Width] = CanvasText(w)
                /\ result.map[WebpText.WebP_Canvas_Height] = CanvasText(h)
                /\ (WebpText.WebP_Features \in DOMAIN result.map) = (f # 0)

\* A call has returned for a VP8X chunk with no flag set and the largest raw
\* width.
C18_LargestWidthNoFlag ==
    /\ Returned
    /\ data = Vp8xFile(0, 16777215, 99)
    /\ DOMAIN result.map = {WebpText.WebP_Canvas_Width, WebpText.WebP_Canvas_Height}

\* C19: ParseImage keeps no state between calls: a call that returns for a
\* buffer that an earlier call, before or after calls on other buffers, got a
\* result for, returns that same result (the same map, or the same error).
C19_SameBytesSameResult ==
    (Returned /\ data \in DOMAIN hist.seen) => result = hist.seen[data]

\* A call has returned a map for a buffer parsed before, right after a call
\* on another buffer.
C19_ParsedAgainAfterAnother ==
    /\ Returned /\ result.err = "none"
    /\ data \in DOMAIN hist.seen
    /\ hist.prev # <<>> /\ hist.prev # data

\* C20: with 32-bit int, the TIFF/IFD walk reads no byte outside the region
\* for any first-IFD offset, sub-IFD offset, value offset and count: no slice
\* expression of parseIFD or parseTag is out of range, so the walk never ends
\* in a panic and goes on to the remaining entries.
C20_OffsetsStayInRegion == fault \notin {"parseIFD", "parseTag"}

\* C21: in the PNG and WebP walks, with 32-bit int, a declared chunk length
\* that does not fit in the rest of the buffer halts the walk: the length check
\* is not passed by a sum that wraps, so no chunk slice is out of range.
C21_LengthCheckCannotWrap == fault # "chunkData"

\* C22: an IFD0 entry with the EXIF pointer tag starts a walk of the sub-IFD
\* it points to, whatever its type and count, and the entries after it are
\* decoded: the call returns the sub-IFD's ISO and IFD0's Model.
C22_PointerAlwaysFollowed ==
    (data \in PointerInputs /\ Returned) =>
        result = Ok(Put(Put(EmptyMap, TiffText.ISO, <<49, 48, 48>>), TiffText.Model, <<77>>))

\* The key a generic segment of GenericMarkers is stored under.
GenericKey(marker1) ==
    CASE marker1 = 227 -> <<65, 80, 80, 51, 95, 68, 97, 116, 97>>          \* "APP3_Data"
      [] marker1 = 236 -> <<65, 80, 80, 49, 50, 95, 68, 97, 116, 97>>      \* "APP12_Data"
      [] marker1 = 239 -> <<65, 80, 80, 49, 53, 95, 68, 97, 116, 97>>      \* "APP15_Data"

\* What a call on a one-segment buffer returns when text is stored from the
\* ratio of printable bytes for which asText(n, p) holds.
GenericStored(asText(_, _)) ==
    (data \in PrintableInputs /\ Returned) =>
        \A mk \in GenericMarkers, c \in PrintableCases :
            data = PrintableJpeg(mk, c[1], c[2]) =>
                result = Ok(Put(EmptyMap, GenericKey(mk),
                                IF asText(c[1], c[2]) THEN MixedPayload(c[1], c[2])
                                ELSE BinaryNote(c[1])))

MoreThanFourFifths(n, p) == 5 * p > 4 * n
AtLeastFourFifths(n, p) == 5 * p >= 4 * n

\* C23: a generic APP3-APP12 or APP15 segment with a non-empty payload of n
\* bytes, p of them printable ASCII, tab, LF or CR, is stored as text when
\* p/n is more than 80 percent (5*p > 4*n) and as a byte-count note
\* otherwise, so also at exactly 80 percent.
C23_TextAboveFourFifths == GenericStored(MoreThanFourFifths)

\* C23 as stated: text when p/n is at least 80 percent, exactly 80 percent
\* included.
C23_TextFromFourFifths == GenericStored(AtLeastFourFifths)

\* A call has returned for a segment whose payload is printable to exactly 80
\* percent.
C23_ExactlyFourFifths ==
    /\ Returned /\ result.err = "none"
    /\ \E mk \in GenericMarkers : data = PrintableJpeg(mk, 10, 8)

\* The payload the next iteration of the container walk hands to ParseTIFF, as
\* a one-element sequence; <<>> when it makes no such call.
EmbeddedExif ==
    CASE pc = "jpeg" ->
           LET st == JpegStep(data, pos, exifData)
           IN IF st.kind = "tiff" THEN <<SubSeq(st.seg, 7, Len(st.seg))>> ELSE <<>>
      [] pc = "png" ->
           LET st == PngStep(data, pos, exifData)
           IN IF st.kind = "tiff" THEN <<st.chunk>> ELSE <<>>
      [] pc = "webp" ->
           LET st == WebpStep(data, pos, exifData)
           IN IF st.kind = "tiff" THEN <<st.chunk>> ELSE <<>>
      [] OTHER -> <<>>

\* ParseTIFF rejects d: shorter than 8 bytes, or marker neither II nor MM.
Rejected(d) ==
    \/ Len(d) < 8
    \/ ~(d[1] = 73 /\ d[2] = 73) /\ ~(d[1] = 77 /\ d[2] = 77)

\* The keys of notes the decoders write about a chunk, which are not fields
\* decoded from the file.
NoteKeys == {JpegText.EXIF_ParseError, PngText.PNG_Warning}

\* C24: when the container walk hands ParseTIFF a payload that ParseTIFF
\* rejects, the step returns to the container loop with every field decoded
\* before still in the map, and the call does not fail for it: once the
\* rejection is noted, a call that returns returns the map.
C24_RejectedExifKeepsWalk ==
    /\ [][(EmbeddedExif # <<>> /\ Rejected(EmbeddedExif[1])) =>
             /\ pc' = pc
             /\ \A k \in DOMAIN exifData \ NoteKeys :
                   k \in DOMAIN exifData' /\ exifData'[k] = exifData[k]]_vars
    /\ []((Returned /\ JpegText.EXIF_ParseError \in DOMAIN exifData) => result = Ok(exifData))

\* A call in which ParseTIFF rejected a payload has returned a map that holds
\* the JPEG comment of another segment beside the note of the rejection.
C24_FieldBesideRejected ==
    /\ Returned
    /\ {JpegText.EXIF_ParseError, JpegText.JPEG_Comment} \subseteq DOMAIN result.map

\* Buffers in which one key is produced twice, each with the key and the value
\* of the occurrence that comes last in walk order.
LastWins ==
    LET com(a, b) == <<255, 216>> \o Segment(254, a) \o Segment(254, b)
        text(a, b) == pngSignature \o a \o b
        hi == <<72, 105>>
        yo == <<89, 111, 33>>
        tHi == Chunk(PngText.tEXt, <<67, 0, 72, 105>>)
        tYo == BadCrcChunk(PngText.tEXt, <<67, 0, 89, 111>>)
        pngC == <<80, 78, 71, 95, 67>>                          \* "PNG_C"
    IN { <<com(hi, yo), JpegText.JPEG_Comment, yo>>,
         <<com(yo, hi), JpegText.JPEG_Comment, hi>>,
         <<text(tHi, tYo), pngC, <<89, 111>>>>,
         <<text(tYo, tHi), pngC, hi>>,
         <<ExifJpeg(DupTiff(FALSE)), TiffText.Make, <<67>>>>,   \* IFD0, then the sub-IFD
         <<ExifJpeg(DupTiff(TRUE)), TiffText.Make, <<66>>>> }   \* the entry after the pointer

\* C25: when one key is produced more than once during a parse (two COM
\* segments, two tEXt chunks with one keyword, a tag in IFD0 and in the EXIF
\* sub-IFD), the returned map holds for it the value of the occurrence that
\* comes last in walk order.
C25_LastOccurrenceWins ==
    Returned =>
        \A c \in LastWins :
            data = c[1] => result.err = "none" /\ c[2] \in DOMAIN result.map
                           /\ result.map[c[2]] = c[3]

\* A call has returned for a TIFF whose IFD0 holds Make before and after the
\* pointer to a sub-IFD that holds Make too.
C25_TagInBothIfds == Returned /\ data = ExifJpeg(DupTiff(TRUE)) /\ result.err = "none"

\* The fields each payload of MovedPayloads decodes to.
PayloadFields(t) ==
    IF t = "makeOffset"
    THEN Put(EmptyMap, TiffText.Make, <<65, 99, 109, 101>>)                      \* "Acme"
    ELSE Put(Put(EmptyMap, TiffText.Model, <<77>>), TiffText.ISO, <<49, 48, 48>>) \* "M", "100"

\* C26: the fields decoded from an embedded EXIF payload depend on the bytes
\* of the payload only: the same TIFF, with a value and a sub-IFD reached by
\* offset, decodes to the same fields at every position in a JPEG, a PNG and a
\* WebP file.
C26_ExifFieldsPositionFree ==
    (data \in MovedExifInputs /\ Returned) =>
        \A c \in {"jpeg", "png", "webp"}, t \in MovedPayloads, k \in 0..2 :
            data = MovedExif(c, TiffRegions[t], k) =>
                /\ result.err = "none"
                /\ \A key \in DOMAIN PayloadFields(t) :
                      key \in DOMAIN result.map /\ result.map[key] = PayloadFields(t)[key]
                /\ DOMAIN result.map \cap {TagName(tag) : tag \in 256..42036}
                       \subseteq DOMAIN PayloadFields(t)

\* A call has returned for a PNG whose eXIf chunk, with a value stored at an
\* offset, comes after two other chunks.
C26_ExifAfterTwoChunks ==
    Returned /\ data = MovedExif("png", TiffRegions.makeOffset, 2) /\ result.err = "none"

\* C27: an IFD entry of type SHORT, LONG or RATIONAL with a count other than
\* 1, or of a type that is not ASCII, SHORT, LONG, RATIONAL or the user
\* comment's UNDEFINED, emits no field, and the entry after it is decoded: the
\* call returns the Software field of the second entry and nothing else.
C27_UndecodedEntrySkipped ==
    data \in SkippedInputs =>
        /\ pc # "panic"
        /\ Returned => result = Ok(Put(EmptyMap, TiffText.Software, <<88>>))

\* A call has returned for an IFD whose first entry is a RATIONAL with count 2.
C27_RationalCountTwo ==
    Returned /\ data = ExifJpeg(SkippedTiff(tagFNumber, 5, 2)) /\ result.err = "none"

\* C28: a zTXt chunk, or an iTXt chunk with compression flag 1 and method 0,
\* whose inflate stream is invalid emits no field and no error, and the chunk
\* after it is decoded: the call returns the field of the following tEXt
\* chunk and nothing else.
C28_BadInflateSkipped ==
    data \in BadInflateInputs =>
        /\ pc # "panic"
        /\ Returned => result = Ok(Put(EmptyMap, <<80, 78, 71, 95, 67>>, <<72, 105>>))

\* A call has returned for an iTXt chunk whose stream has a wrong checksum.
C28_WrongChecksumReturned ==
    /\ Returned /\ result.err = "none"
    /\ data = pngSignature
                \o Chunk(PngText.iTXt, <<84, 0, 1, 0, 0, 0>> \o CutEnd(Deflated(<<72, 105>>), 1) \o <<0>>)
                \o Chunk(PngText.tEXt, <<67, 0, 72, 105>>)

\* C29: after any sequence of showModal calls on one page, in any
\* interleaving of their EXIF loads, at most one modal overlay is attached to
\* the document.
C29_AtMostOneOverlay == Cardinality(AttachedOverlays) <= 1

\* The promises of _loadWasm that have not settled.
LoadsInFlight == {p \in DOMAIN loader.promises : loader.promises[p] = "pending"}

\* C30: for one WasmExifParser instance, under any interleaving of load(),
\* parseExif(), detectFormat() and getSupportedFormats() calls: at most one
\* _loadWasm is in flight, and callers that arrive meanwhile wait on its
\* promise; once initialized is true it stays true and no _loadWasm is
\* started; and loading is true only while the caller that started the load
\* has not resumed, so after a failed load it is false again and the next
\* call starts a new load.
C30_LoadStartedOnce ==
    /\ [](Cardinality(LoadsInFlight) <= 1)
    /\ [][loader.loading =>
             \A c \in DOMAIN loader'.callers \ DOMAIN loader.callers :
                 /\ loader'.callers[c] = Caller(loader'.callers[c].op, "waiter", loader.loadPromise)
                 /\ loader'.promises = loader.promises]_vars
    /\ [][loader.initialized =>
             loader'.initialized /\ loader'.promises = loader.promises]_vars
    /\ [](loader.loading <=> \E c \in DOMAIN loader.callers : loader.callers[c].at = "owner")
    /\ [](LoadsInFlight # {} => loader.loading /\ ~loader.initialized)

\* A first load has failed, a later call has started a second one that
\* succeeded, and a caller that waited on the second promise has returned.
C30_ReloadedAfterFailure ==
    /\ loader.initialized /\ ~loader.loading
    /\ Len(loader.promises) = 2 /\ loader.promises[1] = "rejected"
    /\ \E c \in DOMAIN loader.callers :
          loader.callers[c] = Caller("parseExif", "returned", 2)

====
